---- MODULE Spec2Model ----
(***************************************************************************)
(* Asset delivery of room-scanner: the dependency loader (single-flight    *)
(* load of the ONNX runtime over an ordered source list), the unified      *)
(* asset loader (weighted, throttled progress and the model source         *)
(* fallback), the asset manager (load-attempt records) and the model       *)
(* manager (smallest-variant fallback).                                    *)
(*                                                                         *)
(* The loaders are separate objects that share no state, so a behaviour    *)
(* exercises one of them: `component` names it and every action is guarded *)
(* by it.  JavaScript runs to completion: an action is one task together   *)
(* with the promise continuations it triggers, except where a continuation *)
(* can be overtaken by another call made in the same task (the awaited     *)
(* health check of the dependency loader), which is a step of its own.     *)
(***************************************************************************)
EXTENDS Integers, Sequences, FiniteSets, TLC

VARIABLES
    component,          \* the object the behaviour exercises
    pageOrigin,         \* window.location.origin ("null" for a file: page)
    \* ---- URL validator (DependencyLoader._validateScriptUrl)
    urlInput,           \* the URL handed to the validator (a sequence of atoms)
    urlVerdict,         \* "none" before the call, then "true" / "false"
    \* ---- DependencyLoader
    depVersion,         \* "base": js/dependencyLoader.js, "hardened": the validating variant
    ort,                \* the global runtime object window.ort
    scriptsInDom,       \* strategy indices whose <script src=...> element is in the document
    loadedDependencies, \* Set of dependency keys
    loadingPromises,    \* Map key -> promise, a promise named by its internal load (0: no entry)
    loads,              \* the _loadOnnxRuntimeInternal invocations some caller still refers to
    callers,            \* the loadOnnxRuntime() invocations, by caller
    microtasks,         \* callers suspended at `await this._verifyOnnxRuntime()`, in order
    \* ---- UnifiedAssetLoader
    ualPc,              \* where the load session is
    isServiceWorkerEnabled,
    progress,           \* progressCallback set?, lastProgressUpdate, currentStep, and the record
                        \* of what the callback was handed
    now,                \* Date.now(), in ms
    received,           \* quarters of the running download received so far
    ualTried,           \* the urls the running source loop has attempted, in order
    ualResult,          \* what the last finished call settled with
    ualCleanedDuring,   \* history: the load that was in flight when cleanup() ran
    \* ---- AssetManager and ModelManager
    mmPc,               \* where the call in progress is
    mmCall,             \* the call in progress (or the last one)
    mmResult,           \* what loadAsset / the last finished call settled with
    currentModelIndex,
    fallbackAttempted,
    loadedModels,       \* Map filename -> session: the filenames it holds
    loadAttempts,       \* Map attemptKey -> the attempt recorded for it
    amKey,              \* attemptKey of the running (or last) loadAsset call
    amTried,            \* the candidates that call has attempted, in order, with outcomes
    \* ---- service worker
    CACHE_VERSION,      \* the generation of the active worker
    cacheStorage,       \* Cache Storage: cache name -> cache
    swResponse,         \* the response to the last fetch event
    swStatus,           \* the last reply to GET_CACHE_STATUS
    modelsStoredBy,     \* history: model URL -> the generations that cached it
    swBackground,       \* cacheModelsInBackground: where it is, and its Cache object
    swCleared,          \* "yes": the models cache was cleared and no store has begun
                        \* since; "reported": and GET_CACHE_STATUS was answered since
    \* ---- ServiceWorkerManager
    controller,         \* navigator.serviceWorker.controller is set
    swmCalls,           \* the calls of cacheModel, clearModelCache, updateCacheStats
    swmPorts,           \* per MessageChannel: the handler on port1 and its messages
    swInbox,            \* message events the worker is handling
    swmPush,            \* a notification of the worker on its way to the page
    offlineReady,       \* onOfflineReady was called
    \* ---- AssetManager over time
    amcNow,             \* Date.now(), from the construction of the manager
    amcAttempt,         \* the record of the asset in loadAttempts
    amcLoad,            \* the last loadAsset call: how it was served
    amcResolved,        \* history: the asset has been resolved successfully
    \* ---- size checks
    sizeInput,          \* the candidate and the response under check
    sizeCheck,          \* which check ran and what it decided
    \* ---- checkAvailability
    avNow,              \* Date.now(), from the construction of the loader
    availabilityCache,  \* the entry of the url in availabilityCache
    avProbes,           \* HEAD probes in flight: start time and the entry seen
    avCall,             \* the last call that returned: how, what, when
    \* ---- one candidate of a source chain
    candUrl,            \* the URL of the candidate
    candReport,         \* which function handled it, its report, whether it asked the network
    \* ---- the canvas cache of the inference engine
    canvasCache,        \* the keys of the Map, in insertion order
    canvasCall,         \* the last getCachedCanvas: key, cache before, key evicted
    \* ---- downloadWithProgress
    dlNow,              \* the clock, in ms
    dlAttempt,          \* the running (or last) call
    dlTimers,           \* the timers that are armed: whose, and when they fire
    dlBody,             \* the bytes of the response not yet delivered
    dlSent,             \* the whole body of the response of this attempt
    \* ---- loadModel and the models cache
    orchCache,          \* the URLs the models cache of the worker holds
    orchLoad,           \* the last loadModel: what it returned, and from where
    orchDownloaded,     \* an earlier loadModel returned data downloaded from the CDN
    \* ---- updateProgress as a function
    progInput,          \* localProgress and stage
    progOutput,         \* what reaches the callback, in hundredths of a percent
    \* ---- ErrorBoundary
    recoveryCallback,   \* the boundary was constructed with a recovery callback
    errorCount,         \* this.errorCount
    consecutiveErrors,  \* this.consecutiveErrors
    isRecovering,       \* this.isRecovering
    ebRecoveries,       \* attemptRecovery calls under way, by what they await
    ebLast,             \* the last call of the wrapped function, and what it led to
    \* ---- ObjectDetectionApp
    appPc,              \* where initialize() is
    isLoading,          \* this.isLoading
    cameraReady,        \* this.camera.isReady()
    appListeners,       \* setupEventListeners() has run
    isLiveDetection,    \* this.isLiveDetection
    animationId,        \* this.animationId (0: null)
    liveLoops           \* the chains of runLiveDetectionLoop, by what each waits for

depVars == <<depVersion, ort, scriptsInDom, loadedDependencies, loadingPromises,
             loads, callers, microtasks>>
urlVars == <<urlInput, urlVerdict>>
mmVars == <<mmPc, mmCall, mmResult, currentModelIndex, fallbackAttempted, loadedModels,
           loadAttempts, amKey, amTried>>
swVars == <<CACHE_VERSION, cacheStorage, swResponse, swStatus, modelsStoredBy, swBackground,
           swCleared>>
swmVars == <<controller, swmCalls, swmPorts, swInbox, swmPush, offlineReady>>
amcVars == <<amcNow, amcAttempt, amcLoad, amcResolved>>
sizeVars == <<sizeInput, sizeCheck>>
avVars == <<avNow, availabilityCache, avProbes, avCall>>
candVars == <<candUrl, candReport>>
canvasVars == <<canvasCache, canvasCall>>
dlVars == <<dlNow, dlAttempt, dlTimers, dlBody, dlSent>>
orchVars == <<orchCache, orchLoad, orchDownloaded>>
progVars == <<progInput, progOutput>>
ebVars == <<recoveryCallback, errorCount, consecutiveErrors, isRecovering, ebRecoveries, ebLast>>
appVars == <<appPc, isLoading, cameraReady, appListeners, isLiveDetection, animationId, liveLoops>>
otherVars == <<swVars, swmVars, amcVars, sizeVars, avVars, candVars, canvasVars, dlVars,
              orchVars,
              progVars,
              ebVars,
              appVars>>
ualVars == <<ualPc, isServiceWorkerEnabled, progress, now, received, ualTried, ualResult,
            ualCleanedDuring>>

-----------------------------------------------------------------------------
(* Bounds *)
MaxPathLen == 3
MaxGen == 2             \* generations of the service worker
MaxCalls == 2           \* requests to the service worker outstanding at once
MaxTicks == 6           \* runs of the cleanup timer of the AssetManager
MaxAvNow == 610000      \* the clock of the availability checks stops here
MaxProbes == 2          \* availability probes in flight at once
StartTime == 1000       \* Date.now() when the page starts
MaxNow == 1400          \* the clock stops here
NCallers == 2

-----------------------------------------------------------------------------
(***************************************************************************)
(* URLs.  A URL string is a sequence of atoms; an atom is a piece of text  *)
(* that holds no '.', '/' or '\' unless it is that character itself (a     *)
(* scheme with its "//", a host name, a port, a name), so that a substring *)
(* test for "../" is a test on adjacent atoms.                             *)
(***************************************************************************)
SchemeAtoms == {"https://", "http://", "//"}
HostAtoms == {"cdn.jsdelivr.net", "unpkg.com", "evil.example", "app.example", "localhost"}
PortAtoms == {":8443"}
PathAtoms == {".", "/", "\\", "x"}
SlashAtoms == {"/", "\\"}

\* window.location.origin: a secure deployment, a development server, and a page
\* opened from a file, whose origin is the string "null".
NullOrigin == [scheme |-> "null", host |-> "", port |-> ""]
PageOrigins ==
    { [scheme |-> "https:", host |-> "app.example", port |-> ""],
      [scheme |-> "http:", host |-> "localhost", port |-> ""],
      NullOrigin }

RECURSIVE SeqsUpTo(_, _)
SeqsUpTo(S, n) ==
    IF n = 0 THEN {<<>>}
    ELSE LET shorter == SeqsUpTo(S, n - 1)
         IN  shorter \cup {Append(s, a) : s \in {t \in shorter : Len(t) = n - 1}, a \in S}

\* Path texts: any sequence of path atoms.
Paths == SeqsUpTo(PathAtoms, MaxPathLen)

\* A path that may follow a host: empty, or starting with a slash (anything else
\* would extend the host name).
AfterHost(p) == p = <<>> \/ p[1] \in SlashAtoms

\* A relative reference that does not start an authority ("//host").
RelativeRef(p) == ~(Len(p) >= 2 /\ p[1] \in SlashAtoms /\ p[2] \in SlashAtoms)

\* The URL strings the validator is exercised with: relative references, absolute
\* and scheme-relative URLs with or without a port, and a scheme with no host.
UrlInputs ==
    {p \in Paths : RelativeRef(p)}
    \cup {<<s, h>> \o p : s \in SchemeAtoms, h \in HostAtoms, p \in {q \in Paths : AfterHost(q)}}
    \cup {<<s, h, pt>> \o p : s \in SchemeAtoms, h \in HostAtoms, pt \in PortAtoms,
                              p \in {q \in Paths : AfterHost(q) /\ Len(q) < MaxPathLen}}
    \cup {<<s>> : s \in {"https://", "http://"}}

\* url.includes(needle)
Includes(url, needle) ==
    \E i \in 1..Len(url) :
        /\ i + Len(needle) - 1 <= Len(url)
        /\ \A j \in 1..Len(needle) : url[i + j - 1] = needle[j]

\* new URL(url, base): the parts the validator reads, or threw = TRUE for the
\* TypeError.  base is window.location.origin; "null" is no valid base.
Threw == [threw |-> TRUE, protocol |-> "", hostname |-> "", port |-> ""]
ParseURL(url, base) ==
    IF url # <<>> /\ url[1] \in SchemeAtoms
    THEN IF Len(url) < 2 THEN Threw
         ELSE IF url[2] \notin HostAtoms THEN Threw
         ELSE IF url[1] = "//" /\ base = NullOrigin THEN Threw
         ELSE [threw    |-> FALSE,
               protocol |-> CASE url[1] = "https://" -> "https:"
                              [] url[1] = "http://" -> "http:"
                              [] OTHER -> base.scheme,
               hostname |-> url[2],
               port     |-> IF Len(url) >= 3 /\ url[3] \in PortAtoms THEN url[3] ELSE ""]
    ELSE IF base = NullOrigin THEN Threw
         ELSE [threw |-> FALSE, protocol |-> base.scheme, hostname |-> base.host,
               port |-> base.port]

\* URL.origin: scheme, host and port
OriginOf(u) == [scheme |-> u.protocol, host |-> u.hostname, port |-> u.port]

allowedCDNs == {"cdn.jsdelivr.net", "unpkg.com"}

\* The path-traversal test of the validator, on the string as given.
HasTraversal_Off(url) == FALSE
HasTraversal(url) == Includes(url, <<".", ".", "/">>) \/ Includes(url, <<".", ".", "\\">>)

CdnAllowed_AnyScheme(u) == u.hostname \in allowedCDNs
CdnAllowed(u) == u.protocol = "https:" /\ u.hostname \in allowedCDNs

_validateScriptUrl(url, origin) ==
    LET urlObj == ParseURL(url, origin)
    IN  IF urlObj.threw THEN FALSE
        ELSE IF OriginOf(urlObj) = origin
             THEN ~HasTraversal(url)
             ELSE CdnAllowed(urlObj)

-----------------------------------------------------------------------------
(***************************************************************************)
(* DependencyLoader                                                        *)
(***************************************************************************)
depKey == "onnxruntime"
Callers == 1..NCallers

\* window.ort: absent; present with InferenceSession and Tensor but without env (so
\* that _verifyOnnxRuntime throws); functional.
OrtStates == {"undefined", "noenv", "ok"}

\* strategies of _loadOnnxRuntimeInternal, in the order of the array
strategies ==
    << [source |-> "CDN-Primary",
        url |-> <<"https://", "cdn.jsdelivr.net", "/", "npm", "/", "onnxruntime-web@1", ".",
                  "18", ".", "0", "/", "dist", "/", "ort", ".", "min", ".", "js">>],
       [source |-> "CDN-Fallback",
        url |-> <<"https://", "unpkg.com", "/", "onnxruntime-web@1", ".", "18", ".", "0",
                  "/", "dist", "/", "ort", ".", "min", ".", "js">>],
       [source |-> "Local",
        url |-> <<".", "/", "lib", "/", "ort", ".", "min", ".", "js">>] >>

\* _verifyOnnxRuntime(): TRUE when it returns, FALSE when it throws
_verifyOnnxRuntime(o) == o = "ok"

\* the error thrown when the loop of _loadOnnxRuntimeInternal ends; lastError is
\* the one the last catch block held
AllSourcesError == "Failed to load ONNX Runtime from all available sources"
LoopEndError_Last(lastError) == lastError
LoopEndError(lastError) == AllSourcesError

\* The strategy the loop goes to after strategy i failed.
NextStrategy_Skip(i) == i + 2
NextStrategy(i) == i + 1

\* _loadOnnxRuntimeInternal from strategy i on, as far as it runs without waiting
\* for the network: a strategy whose URL the validator rejects (hardened variant)
\* or whose script element exists while ort is defined is decided at once; any
\* other leaves a script element in the document and waits for its events.
\* tried: the strategies attempted so far, in order, each with whether the
\* validator let it pass.
\* _loadScript: if (!this._validateScriptUrl(src)) reject (hardened variant only)
ScriptUrlAccepted_Always(version, url, origin) == TRUE
ScriptUrlAccepted(version, url, origin) ==
    version = "hardened" => _validateScriptUrl(url, origin)

RECURSIVE RunFrom(_, _, _, _, _, _, _)
RunFrom(i, o, dom, tried, lastError, version, origin) ==
    IF i > Len(strategies)
    THEN [st |-> "err", idx |-> 0, dom |-> dom, tried |-> tried,
          error |-> LoopEndError(lastError)]
    ELSE IF ~ScriptUrlAccepted(version, strategies[i].url, origin)
    THEN RunFrom(NextStrategy(i), o, dom, Append(tried, [idx |-> i, valid |-> FALSE]),
                 "Invalid or insecure script URL", version, origin)
    ELSE IF i \in dom /\ o # "undefined"
    THEN \* existing script, resolve(); then the checks after _loadScript
         IF _verifyOnnxRuntime(o)
         THEN [st |-> "ok", idx |-> i, dom |-> dom,
               tried |-> Append(tried, [idx |-> i, valid |-> TRUE]), error |-> ""]
         ELSE RunFrom(NextStrategy(i), o, dom, Append(tried, [idx |-> i, valid |-> TRUE]),
                      "ONNX Runtime verification failed", version, origin)
    ELSE \* (a stale element is removed,) a new script element is appended
         [st |-> "wait", idx |-> i, dom |-> dom \cup {i},
          tried |-> Append(tried, [idx |-> i, valid |-> TRUE]), error |-> ""]

\* The attempt in progress fails with `err`; the loop continues.
FailCurrent(ld, err, o, dom, version, origin) ==
    RunFrom(NextStrategy(ld.idx), o, dom, ld.tried, err, version, origin)

\* what loadOnnxRuntime() settles with, given the settled internal load
ResultOf(ld) ==
    IF ld.st = "ok"
    THEN [kind |-> "ok", source |-> strategies[ld.idx].source, error |-> ""]
    ELSE [kind |-> "err", source |-> "", error |-> ld.error]

CachedResult == [kind |-> "cached", source |-> "cached", error |-> ""]
NoResult == [kind |-> "none", source |-> "", error |-> ""]

\* A caller: where it is in loadOnnxRuntime(), and for the record: the promise it
\* was handed (ticket), the internal load it started (0: none), the load that was
\* in flight, started from a state neither loading nor loaded, when it called
\* (batch; 0: none), whether its previous call was rejected (retry), and what
\* became of a loaded marker it found before it started a load (evict).
IdleCaller == [pc |-> "idle", ticket |-> 0, started |-> 0, batch |-> 0,
               vres |-> FALSE, result |-> NoResult, retry |-> FALSE, evict |-> "none"]

\* A settled caller goes on before anything else happens: what it does with its
\* result is not the loader's business.
NoneDone == \A c \in Callers : callers[c].pc # "done"

\* this.loadingPromises.has(depKey)
LoadingHas_Never(lp) == FALSE
LoadingHas(lp) == lp[depKey] # 0

\* finally { this.loadingPromises.delete(depKey) }
FinallyDelete_Keep(lp) == lp
FinallyDelete(lp) == [lp EXCEPT ![depKey] = 0]

\* Internal loads are numbered by the slot that holds their record; a record is
\* dropped when the load is settled and no caller refers to it any more.
Slots == 1..NCallers
FreeLoad == [st |-> "free", idx |-> 0, tried |-> <<>>, error |-> "", clean |-> FALSE]
FreeSlots == {L \in Slots : loads[L].st = "free"}
Min(S) == CHOOSE x \in S : \A y \in S : x <= y

Pending(L) == loads[L].st = "wait"
PendingLoads == {L \in Slots : Pending(L)}

\* The load in flight that was started while the key was neither loading nor loaded.
CleanInFlight == {L \in PendingLoads : loads[L].clean}
BatchNow == IF CleanInFlight = {} THEN 0 ELSE CHOOSE L \in CleanInFlight : TRUE

\* The continuations of the callers awaiting load L: each settles with res.
Deliver(cs, L, res) ==
    [c \in Callers |->
        IF cs[c].pc \in {"owner", "joined"} /\ cs[c].ticket = L
        THEN [cs[c] EXCEPT !.pc = "done", !.result = res]
        ELSE cs[c]]

\* this.loadedDependencies.delete(depKey) after a failed health check
Evict_Keep(ld) == ld
Evict(ld) == ld \ {depKey}

\* Lines 27-36 (base) / 40-49 (hardened): caller c starts the internal load; ld is
\* loadedDependencies as the code before left it.
StartLoad(c, ld, clean, batchAtEntry) ==
    /\ FreeSlots # {}
    /\ LET r == RunFrom(1, ort, scriptsInDom, <<>>, "", depVersion, pageOrigin)
           L == Min(FreeSlots)
           rec == [st |-> r.st, idx |-> r.idx, tried |-> r.tried, error |-> r.error,
                   clean |-> clean]
           me == [callers[c] EXCEPT !.pc = "owner", !.ticket = L, !.started = L,
                                    !.batch = IF clean THEN L ELSE batchAtEntry,
                                    !.evict = IF depKey \notin loadedDependencies
                                              THEN "none"
                                              ELSE IF depKey \in ld THEN "kept"
                                              ELSE "evicted"]
       IN  /\ loads' = [loads EXCEPT ![L] = rec]
           /\ scriptsInDom' = r.dom
           /\ IF r.st = "wait"
              THEN /\ loadingPromises' = [loadingPromises EXCEPT ![depKey] = L]
                   /\ callers' = [callers EXCEPT ![c] = me]
                   /\ loadedDependencies' = ld
              ELSE \* the promise is settled before it is awaited
                   /\ loadingPromises' =
                          FinallyDelete([loadingPromises EXCEPT ![depKey] = L])
                   /\ callers' = Deliver([callers EXCEPT ![c] = me], L, ResultOf(rec))
                   /\ loadedDependencies' = IF r.st = "ok" THEN ld \cup {depKey} ELSE ld

\* loadOnnxRuntime() up to its first await.
Call(c) ==
    /\ component = "dep" /\ NoneDone
    /\ callers[c].pc = "idle"
    /\ \A d \in Callers : callers[d] = callers[c] => c <= d   \* equal callers are interchangeable
    /\ IF LoadingHas(loadingPromises)
       THEN \* return this.loadingPromises.get(depKey)
            LET L == loadingPromises[depKey]
                me == [callers[c] EXCEPT !.ticket = L, !.batch = BatchNow]
            IN  /\ callers' = [callers EXCEPT ![c] =
                       IF Pending(L) THEN [me EXCEPT !.pc = "joined"]
                       ELSE [me EXCEPT !.pc = "done", !.result = ResultOf(loads[L])]]
                /\ UNCHANGED <<loads, scriptsInDom, loadingPromises, loadedDependencies,
                               microtasks>>
       ELSE IF depVersion = "base"
       THEN IF depKey \in loadedDependencies /\ ort # "undefined"
            THEN /\ callers' = [callers EXCEPT ![c].pc = "done", ![c].result = CachedResult]
                 /\ UNCHANGED <<loads, scriptsInDom, loadingPromises, loadedDependencies,
                                microtasks>>
            ELSE /\ StartLoad(c, loadedDependencies,
                              PendingLoads = {} /\ depKey \notin loadedDependencies,
                              BatchNow)
                 /\ UNCHANGED microtasks
       ELSE IF depKey \in loadedDependencies
       THEN IF ort # "undefined"
            THEN \* await this._verifyOnnxRuntime(): decided now, resumed later
                 /\ callers' = [callers EXCEPT ![c].pc = "verifying",
                                               ![c].vres = _verifyOnnxRuntime(ort),
                                               ![c].batch = BatchNow]
                 /\ microtasks' = Append(microtasks, c)
                 /\ UNCHANGED <<loads, scriptsInDom, loadingPromises, loadedDependencies>>
            ELSE \* clean up stale state, reload
                 /\ StartLoad(c, Evict(loadedDependencies), FALSE, BatchNow)
                 /\ UNCHANGED microtasks
       ELSE /\ StartLoad(c, loadedDependencies, PendingLoads = {}, BatchNow)
            /\ UNCHANGED microtasks
    /\ UNCHANGED <<depVersion, ort, pageOrigin, component, urlVars, ualVars, mmVars, otherVars>>

\* The continuation after `await this._verifyOnnxRuntime()` (hardened variant).
Resume(c) ==
    /\ component = "dep" /\ NoneDone
    /\ microtasks # <<>> /\ Head(microtasks) = c
    /\ microtasks' = Tail(microtasks)
    /\ IF callers[c].vres
       THEN /\ callers' = [callers EXCEPT ![c].pc = "done", ![c].result = CachedResult]
            /\ UNCHANGED <<loads, scriptsInDom, loadingPromises, loadedDependencies>>
       ELSE StartLoad(c, Evict(loadedDependencies), FALSE, callers[c].batch)
    /\ UNCHANGED <<depVersion, ort, pageOrigin, component, urlVars, ualVars, mmVars, otherVars>>

\* The internal load L moves on to `r`; when r is settled, the continuation of
\* `await loadPromise` (add to loadedDependencies on success, delete the entry in
\* any case) and those of the callers that were handed the same promise run.
Progress(L, r) ==
    /\ loads' = [loads EXCEPT ![L] = [st |-> r.st, idx |-> r.idx, tried |-> r.tried,
                                      error |-> r.error, clean |-> loads[L].clean]]
    /\ scriptsInDom' = r.dom
    /\ IF r.st = "wait"
       THEN UNCHANGED <<callers, loadingPromises, loadedDependencies>>
       ELSE /\ callers' = Deliver(callers, L, ResultOf(r))
            /\ loadingPromises' = FinallyDelete(loadingPromises)
            /\ loadedDependencies' =
                   IF r.st = "ok" THEN loadedDependencies \cup {depKey} ELSE loadedDependencies

\* script.onload of the attempt in progress; the script leaves window.ort as o.
ScriptLoaded(L, o) ==
    /\ component = "dep" /\ NoneDone
    /\ microtasks = <<>>
    /\ L \in PendingLoads
    /\ ort' = o
    /\ LET ld == loads[L] IN
       IF o = "undefined"
       THEN Progress(L, FailCurrent(ld, "ONNX Runtime object not available after script load",
                                    o, scriptsInDom, depVersion, pageOrigin))
       ELSE IF ~_verifyOnnxRuntime(o)
       THEN Progress(L, FailCurrent(ld, "ONNX Runtime verification failed",
                                    o, scriptsInDom, depVersion, pageOrigin))
       ELSE Progress(L, [st |-> "ok", idx |-> ld.idx, dom |-> scriptsInDom,
                         tried |-> ld.tried, error |-> ""])
    /\ UNCHANGED <<depVersion, microtasks, pageOrigin, component, urlVars, ualVars, mmVars, otherVars>>

\* script.onerror of the attempt in progress: the element is removed.
ScriptError(L) ==
    /\ component = "dep" /\ NoneDone
    /\ microtasks = <<>>
    /\ L \in PendingLoads
    /\ Progress(L, FailCurrent(loads[L], "Failed to load script", ort,
                               scriptsInDom \ {loads[L].idx}, depVersion, pageOrigin))
    /\ UNCHANGED <<depVersion, ort, microtasks, pageOrigin, component, urlVars, ualVars, mmVars, otherVars>>

\* the 15 s timer of the attempt in progress fires: the element is removed.
ScriptTimeout(L) ==
    /\ component = "dep" /\ NoneDone
    /\ microtasks = <<>>
    /\ L \in PendingLoads
    /\ Progress(L, FailCurrent(loads[L], "Script load timeout", ort,
                               scriptsInDom \ {loads[L].idx}, depVersion, pageOrigin))
    /\ UNCHANGED <<depVersion, ort, microtasks, pageOrigin, component, urlVars, ualVars, mmVars, otherVars>>

\* Something outside the loader removes or damages window.ort.
OrtLost(o) ==
    /\ component = "dep" /\ NoneDone
    /\ microtasks = <<>>
    /\ ort = "ok" /\ o # "ok"
    /\ ort' = o
    /\ UNCHANGED <<depVersion, scriptsInDom, loadedDependencies, loadingPromises, loads,
                   callers, microtasks, pageOrigin, component, urlVars, ualVars, mmVars, otherVars>>

\* The callers that have their result go on (and may call again later); the
\* records of settled loads, which nobody refers to any more, are dropped.
Return ==
    /\ component = "dep"
    /\ \E c \in Callers : callers[c].pc = "done"
    /\ callers' = [c \in Callers |->
           IF callers[c].pc = "done"
           THEN [IdleCaller EXCEPT !.retry = (callers[c].result.kind = "err")]
           ELSE callers[c]]
    /\ loads' = [L \in Slots |-> IF Pending(L) THEN loads[L] ELSE FreeLoad]
    /\ UNCHANGED <<depVersion, ort, scriptsInDom, loadedDependencies, loadingPromises,
                   microtasks, pageOrigin, component, urlVars, ualVars, mmVars, otherVars>>

DepInit ==
    /\ depVersion \in {"base", "hardened"}
    /\ ort = "undefined"
    /\ scriptsInDom = {}
    /\ loadedDependencies = {}
    /\ loadingPromises = [k \in {depKey} |-> 0]
    /\ loads = [L \in Slots |-> FreeLoad]
    /\ callers = [c \in Callers |-> IdleCaller]
    /\ microtasks = <<>>

DepNext ==
    \/ \E c \in Callers : Call(c)
    \/ \E c \in Callers : Resume(c)
    \/ \E L \in Slots, o \in OrtStates : ScriptLoaded(L, o)
    \/ \E L \in Slots : ScriptError(L)
    \/ \E L \in Slots : ScriptTimeout(L)
    \/ \E o \in OrtStates : OrtLost(o)
    \/ Return

-----------------------------------------------------------------------------
(* The validator, exercised on its own *)
Validate ==
    /\ component = "url"
    /\ urlVerdict = "none"
    /\ urlVerdict' = IF _validateScriptUrl(urlInput, pageOrigin) THEN "true" ELSE "false"
    /\ UNCHANGED <<urlInput, pageOrigin, component, depVars, ualVars, mmVars, otherVars>>

UrlInit ==
    /\ urlInput \in UrlInputs
    /\ urlVerdict = "none"

-----------------------------------------------------------------------------
(***************************************************************************)
(* UnifiedAssetLoader: one load session, loadOnnxRuntime() followed by     *)
(* loadModel(), as main.js runs it.  Date.now() is the clock `now`; a task *)
(* runs at one clock value, time passes between tasks.                     *)
(***************************************************************************)
sizeToleranceDiv == 10     \* options.sizeTolerance || 0.1, as 1/10
PROGRESS_THROTTLE_MS == 100
ONNX_RUNTIME_PROGRESS_WEIGHT == 20
MODEL_PROGRESS_WEIGHT == 80
PROGRESS_MAX == 100

\* what Date.now() may advance by between two tasks
TickSteps == {PROGRESS_THROTTLE_MS \div 2, PROGRESS_THROTTLE_MS}

\* A download arrives in quarters of its content length; `progress` as
\* downloadWithProgress reports it after r of them.
Quarters == 4
DownloadProgress(r) ==
    LET p == (r * PROGRESS_MAX) \div Quarters
    IN  IF p < PROGRESS_MAX THEN p ELSE PROGRESS_MAX

\* the local progress the download callbacks hand to updateProgress
DownloadLocal(pct) == 10 + (pct * 8) \div 10

\* urls of the source loops of loadOnnxRuntime / loadModelFallback
ualUrls == << [source |-> "CDN", isLocal |-> FALSE], [source |-> "Local", isLocal |-> TRUE] >>

UalOnnxError == "Failed to load ONNX Runtime from all sources"
UalModelError == "Failed to load model from all sources"

\* The progress state of the loader: lastProgressUpdate, currentStep, the values
\* handed to the callback so far, and the last updateProgress call with whether
\* it reached the callback.
NoCall == [local |-> -1, stage |-> "", delivered |-> FALSE]

Min2(a, b) == IF a < b THEN a ELSE b

\* if (now - this.lastProgressUpdate < this.progressThrottle) return;
Throttled(t, last) == t - last < PROGRESS_THROTTLE_MS

\* this.currentStep = Math.min(PROGRESS_MAX, totalProgress)
NewStep(totalProgress) == Min2(PROGRESS_MAX, totalProgress)

\* the weighted total of updateProgress, in hundredths of a percent: ONNX
\* Runtime 0-20%, model 20-100%
TotalProgress100_NoOffset(localProgress, stage) ==
    IF stage = "onnx" THEN localProgress * ONNX_RUNTIME_PROGRESS_WEIGHT
    ELSE IF stage = "model" THEN localProgress * MODEL_PROGRESS_WEIGHT
    ELSE 0
TotalProgress100(localProgress, stage) ==
    IF stage = "onnx"
    THEN localProgress * ONNX_RUNTIME_PROGRESS_WEIGHT
    ELSE IF stage = "model"
    THEN ONNX_RUNTIME_PROGRESS_WEIGHT * PROGRESS_MAX + localProgress * MODEL_PROGRESS_WEIGHT
    ELSE 0

\* the same in whole percent, as the progress bar shows it
TotalProgress(localProgress, stage) == TotalProgress100(localProgress, stage) \div PROGRESS_MAX

\* updateProgress(localProgress, stage, message) at clock value t
updateProgress(p, localProgress, stage, t) ==
    IF ~p.callback
    THEN [p EXCEPT !.lastCall = [local |-> localProgress, stage |-> stage, delivered |-> FALSE]]
    ELSE IF Throttled(t, p.lastProgressUpdate)
    THEN [p EXCEPT !.lastCall = [local |-> localProgress, stage |-> stage, delivered |-> FALSE]]
    ELSE LET totalProgress == TotalProgress(localProgress, stage)
             step == NewStep(totalProgress)
         IN  [p EXCEPT !.lastProgressUpdate = t,
                       !.currentStep = step,
                       !.delivered = Append(@, step),
                       !.lastCall = [local |-> localProgress, stage |-> stage,
                                     delivered |-> TRUE]]

ualRest == <<depVersion, scriptsInDom, loadedDependencies, loadingPromises, loads,
             callers, microtasks, pageOrigin, component, urlVars, mmVars, otherVars,
             ualCleanedDuring>>

\* Date.now() advances while the loader waits (or before the session starts).
Tick(d) ==
    /\ component = "ual"
    /\ ualPc \in {"idle", "onnx_cdn", "onnx_local", "onnx_done", "model_sw", "model_cdn"}
    /\ now + d <= MaxNow
    /\ now' = now + d
    /\ UNCHANGED <<ualPc, progress, received, ualTried, ualResult, isServiceWorkerEnabled,
                   ort, ualRest>>

\* loadOnnxRuntime() up to its first await
UalLoadOnnxRuntime ==
    /\ component = "ual" /\ ualPc = "idle"
    /\ LET p0 == updateProgress(progress, 0, "onnx", now) IN
       IF ort # "undefined"
       THEN /\ progress' = updateProgress(p0, PROGRESS_MAX, "onnx", now)
            /\ ualPc' = "onnx_done"
            /\ ualResult' = [kind |-> "ok", source |-> "loaded", error |-> ""]
            /\ UNCHANGED ualTried
       ELSE /\ progress' = updateProgress(p0, 10, "onnx", now)
            /\ ualPc' = "onnx_cdn"
            /\ ualTried' = <<1>>
            /\ UNCHANGED ualResult
    /\ received' = 0
    /\ UNCHANGED <<now, isServiceWorkerEnabled, ort, ualRest>>

\* reader.read() yields a chunk: the progress callback of the download runs
UalChunk ==
    /\ component = "ual" /\ ualPc \in {"onnx_cdn", "model_cdn"}
    /\ received < Quarters
    /\ received' = received + 1
    /\ progress' = updateProgress(progress, DownloadLocal(DownloadProgress(received + 1)),
                                  IF ualPc = "onnx_cdn" THEN "onnx" ELSE "model", now)
    /\ UNCHANGED <<ualPc, now, ualTried, ualResult, isServiceWorkerEnabled, ort, ualRest>>

\* reader.read() yields done: the code after `await this.downloadWithProgress`
UalDownloadDone ==
    /\ component = "ual" /\ ualPc \in {"onnx_cdn", "model_cdn"}
    /\ received = Quarters
    /\ LET stage == IF ualPc = "onnx_cdn" THEN "onnx" ELSE "model"
           p95 == updateProgress(progress, 95, stage, now)
       IN  progress' = updateProgress(p95, PROGRESS_MAX, stage, now)
    /\ IF ualPc = "onnx_cdn"
       THEN \E o \in {"undefined", "ok"} :      \* the script text is executed
                /\ ort' = o /\ ualPc' = "onnx_done"
       ELSE /\ ualPc' = "model_done" /\ UNCHANGED ort
    /\ ualResult' = [kind |-> "ok", source |-> "CDN", error |-> ""]
    /\ UNCHANGED <<now, received, ualTried, isServiceWorkerEnabled, ualRest>>

\* fetch rejects, the status is not ok, the stream breaks or the 30 s timer
\* aborts: the catch block of the loop, then the next url
UalDownloadFail ==
    /\ component = "ual" /\ ualPc \in {"onnx_cdn", "model_cdn"}
    /\ LET i == NextStrategy(Len(ualTried)) IN
       IF i > Len(ualUrls)
       THEN /\ ualPc' = IF ualPc = "onnx_cdn" THEN "onnx_failed" ELSE "model_failed"
            /\ ualResult' = [kind |-> "err", source |-> "",
                             error |-> IF ualPc = "onnx_cdn" THEN UalOnnxError
                                       ELSE UalModelError]
            /\ UNCHANGED <<progress, ualTried>>
       ELSE /\ ualTried' = Append(ualTried, i)
            /\ IF ualPc = "onnx_cdn"
               THEN /\ progress' = updateProgress(progress, 10, "onnx", now)
                    /\ ualPc' = "onnx_local"
                    /\ UNCHANGED ualResult
               ELSE \* the local model: its URL is returned at once
                    /\ progress' = updateProgress(updateProgress(progress, 5, "model", now),
                                                  PROGRESS_MAX, "model", now)
                    /\ ualPc' = "model_done"
                    /\ ualResult' = [kind |-> "ok", source |-> ualUrls[i].source,
                                     error |-> ""]
    /\ UNCHANGED <<now, received, isServiceWorkerEnabled, ort, ualRest>>

\* script.onload of loadScript('./lib/ort.min.js')
UalScriptLoaded ==
    /\ component = "ual" /\ ualPc = "onnx_local"
    /\ \E o \in {"undefined", "ok"} : ort' = o
    /\ progress' = updateProgress(progress, PROGRESS_MAX, "onnx", now)
    /\ ualPc' = "onnx_done"
    /\ ualResult' = [kind |-> "ok", source |-> "Local", error |-> ""]
    /\ UNCHANGED <<now, received, ualTried, isServiceWorkerEnabled, ualRest>>

\* script.onerror or the timer of loadScript: the last url has failed
UalScriptFailed ==
    /\ component = "ual" /\ ualPc = "onnx_local"
    /\ ualPc' = "onnx_failed"
    /\ ualResult' = [kind |-> "err", source |-> "", error |-> UalOnnxError]
    /\ UNCHANGED <<now, progress, received, ualTried, isServiceWorkerEnabled, ort, ualRest>>

\* loadModelFallback() up to its first await (the CDN download)
ModelFallbackStart(p) ==
    /\ progress' = updateProgress(updateProgress(p, 5, "model", now), 10, "model", now)
    /\ ualPc' = "model_cdn"
    /\ ualTried' = <<1>>
    /\ received' = 0

\* loadModel(filename, expectedSize) up to its first await
UalLoadModel ==
    /\ component = "ual" /\ ualPc = "onnx_done"
    /\ LET p0 == updateProgress(progress, 0, "model", now) IN
       IF isServiceWorkerEnabled
       THEN /\ progress' = updateProgress(p0, 5, "model", now)
            /\ ualPc' = "model_sw"
            /\ ualTried' = <<>>
            /\ received' = 0
       ELSE ModelFallbackStart(p0)
    /\ ualResult' = NoResult
    /\ UNCHANGED <<now, isServiceWorkerEnabled, ort, ualRest>>

UalSwError == "Model not available"

\* loadModelWithServiceWorker: what follows `await fetch(localUrl)`; a rejected
\* fetch and a response that is not ok both land in the catch block, which
\* returns loadModelFallback(...)
SwPathOutcome_Rethrow(ok) == IF ok THEN "return" ELSE "throw"
SwPathOutcome(ok) == IF ok THEN "return" ELSE "fallback"

\* loadModelWithServiceWorker: `await fetch(localUrl)` settles
UalSwFetch(ok) ==
    /\ component = "ual" /\ ualPc = "model_sw"
    /\ CASE SwPathOutcome(ok) = "return" ->
            /\ progress' = updateProgress(progress, PROGRESS_MAX, "model", now)
            /\ ualPc' = "model_done"
            /\ ualResult' = [kind |-> "ok", source |-> "ServiceWorker", error |-> ""]
            /\ UNCHANGED <<ualTried, received>>
         [] SwPathOutcome(ok) = "fallback" ->
            /\ ModelFallbackStart(progress)
            /\ UNCHANGED ualResult
         [] OTHER ->
            /\ ualPc' = "model_failed"
            /\ ualResult' = [kind |-> "err", source |-> "", error |-> UalSwError]
            /\ UNCHANGED <<progress, ualTried, received>>
    /\ UNCHANGED <<now, isServiceWorkerEnabled, ort, ualRest>>

\* the loads that wait for the network
UalInFlight == {"onnx_cdn", "onnx_local", "model_sw", "model_cdn"}

\* cleanup(): the callback is dropped and the counters are reset; the
\* AbortController of a download is local to downloadWithProgress and is not
\* touched.  Taken here when it matters: a load is in flight and an observer
\* is registered.
UalCleanup ==
    /\ component = "ual"
    /\ ualPc \in UalInFlight
    /\ progress.callback
    /\ progress' = [progress EXCEPT !.callback = FALSE, !.currentStep = 0,
                                    !.lastProgressUpdate = 0]
    /\ ualCleanedDuring' = ualPc
    /\ UNCHANGED <<ualPc, now, received, ualTried, ualResult, isServiceWorkerEnabled, ort,
                   depVersion, scriptsInDom, loadedDependencies, loadingPromises, loads,
                   callers, microtasks, pageOrigin, component, urlVars, mmVars, otherVars>>

NoProgress(cb) ==
    [callback |-> cb, lastProgressUpdate |-> 0, currentStep |-> 0, delivered |-> <<>>,
     lastCall |-> NoCall]

UalInit ==
    /\ ualPc = "idle"
    /\ isServiceWorkerEnabled \in BOOLEAN
    /\ progress \in {NoProgress(cb) : cb \in BOOLEAN}
    /\ now = StartTime
    /\ received = 0
    /\ ualTried = <<>>
    /\ ualResult = NoResult
    /\ ualCleanedDuring = "none"

UalQuiet ==
    /\ ualPc = "off"
    /\ isServiceWorkerEnabled = FALSE
    /\ progress = NoProgress(FALSE)
    /\ now = StartTime
    /\ received = 0
    /\ ualTried = <<>>
    /\ ualResult = NoResult
    /\ ualCleanedDuring = "none"

UalNext ==
    \/ \E d \in TickSteps : Tick(d)
    \/ UalLoadOnnxRuntime
    \/ UalChunk
    \/ UalDownloadDone
    \/ UalDownloadFail
    \/ UalScriptLoaded
    \/ UalScriptFailed
    \/ UalLoadModel
    \/ \E ok \in BOOLEAN : UalSwFetch(ok)
    \/ UalCleanup

-----------------------------------------------------------------------------
(***************************************************************************)
(* AssetManager.loadAsset and ModelManager.loadCurrentModel.  Calls are    *)
(* made one after the other; a call waits for the HEAD request of a remote *)
(* candidate and for ort.InferenceSession.create, whose outcomes the       *)
(* environment decides.                                                    *)
(***************************************************************************)
\* [resolution, filename, expectedSize, priority], indexed from 0 as in the code
RES_TO_MODEL ==
    [i \in 0..3 |->
        CASE i = 0 -> [filename |-> "yolov10n.onnx", expectedSize |-> 9309375]
          [] i = 1 -> [filename |-> "yolov7-tiny_256x256.onnx", expectedSize |-> 24943827]
          [] i = 2 -> [filename |-> "yolov7-tiny_320x320.onnx", expectedSize |-> 24949875]
          [] i = 3 -> [filename |-> "yolov7-tiny_640x640.onnx", expectedSize |-> 25000320]]

ModelCount == Cardinality(DOMAIN RES_TO_MODEL)

\* findSmallestAvailableModel(): the first index of the smallest expectedSize
RECURSIVE SmallestFrom(_, _)
SmallestFrom(i, smallestIndex) ==
    IF i >= ModelCount THEN smallestIndex
    ELSE IF RES_TO_MODEL[i].expectedSize < RES_TO_MODEL[smallestIndex].expectedSize
    THEN SmallestFrom(i + 1, i)
    ELSE SmallestFrom(i + 1, smallestIndex)

findSmallestAvailableModel_Last == ModelCount - 1
findSmallestAvailableModel == SmallestFrom(1, 0)

\* getAssetUrls(assetType, filename): CDN first, then local; for an asset type
\* without configuration both URLs are 'undefined' + filename and one is returned,
\* which is not a local path
AssetTypes == {"models", "unconfigured"}
getAssetUrls(assetType) ==
    IF assetType = "models"
    THEN << [source |-> "CDN", isLocal |-> FALSE], [source |-> "Local", isLocal |-> TRUE] >>
    ELSE << [source |-> "CDN", isLocal |-> FALSE] >>

\* `${assetType}:${filename}`
AttemptKey(assetType, filename) == <<assetType, filename>>
AttemptKeys ==
    {AttemptKey("models", RES_TO_MODEL[i].filename) : i \in DOMAIN RES_TO_MODEL}
        \cup {AttemptKey("unconfigured", "asset.bin")}
NoAttempt == [state |-> "none", source |-> ""]

AmAllSourcesError == "Failed to load asset from all sources"
MmFailedError == "Failed to load model"
MmUnableError == "Unable to load any YOLO models"

\* The loop of loadAsset from candidate i on, as far as it runs without waiting:
\* a local candidate is recorded as a success and returned at once, a remote one
\* waits for its request.  la is loadAttempts, tried the candidates attempted in
\* this call with their outcomes.
RECURSIVE AssetFrom(_, _, _, _, _)
AssetFrom(i, urls, key, la, tried) ==
    IF i > Len(urls)
    THEN [st |-> "err", source |-> "", la |-> la, tried |-> tried]
    ELSE IF urls[i].isLocal
    THEN [st |-> "ok", source |-> urls[i].source,
          la |-> [la EXCEPT ![key] = [state |-> "ok", source |-> urls[i].source]],
          tried |-> Append(tried, [i |-> i, outcome |-> "ok"])]
    ELSE [st |-> "wait", source |-> "", la |-> la,
          tried |-> Append(tried, [i |-> i, outcome |-> "pending"])]

\* The request of the pending candidate settles.
AssetSettle(ok, urls, key, la, tried) ==
    LET i == tried[Len(tried)].i
        done == [tried EXCEPT ![Len(tried)].outcome = IF ok THEN "ok" ELSE "fail"]
    IN  IF ok
        THEN [st |-> "ok", source |-> urls[i].source,
              la |-> [la EXCEPT ![key] = [state |-> "ok", source |-> urls[i].source]],
              tried |-> done]
        ELSE AssetFrom(NextStrategy(i), urls, key,
                       [la EXCEPT ![key] = [state |-> "fail", source |-> urls[i].source]],
                       done)

\* A call: what was called (via), the nesting of loadCurrentModel (depth 2: the
\* call attemptFallbackLoading makes), the index to restore, and for the record:
\* the index the call started with, the variants substituted, the source chains
\* run, the times the catch block was entered, and whether a session was obtained.
NoCallMM == [via |-> "none", depth |-> 0, originalIndex |-> 0, startIndex |-> 0,
             substituted |-> <<>>, chains |-> 0, caught |-> 0, session |-> FALSE]

\* the state of the two objects, as one record the steps below transform
MmState ==
    [pc |-> mmPc, call |-> mmCall, result |-> mmResult,
     currentModelIndex |-> currentModelIndex, fallbackAttempted |-> fallbackAttempted,
     loadedModels |-> loadedModels, loadAttempts |-> loadAttempts,
     amKey |-> amKey, amTried |-> amTried]

MmReject(m, err) ==
    [m EXCEPT !.pc = "done", !.result = [kind |-> "err", source |-> "", error |-> err]]

\* loadAsset(assetType, filename) up to its first pending request
LoadAssetStart(m, key) ==
    IF m.loadAttempts[key].state = "ok"
    THEN [m EXCEPT !.pc = "asset_returned", !.amKey = key, !.amTried = <<>>,
                   !.result = [kind |-> "ok", source |-> m.loadAttempts[key].source,
                               error |-> ""]]
    ELSE LET r == AssetFrom(1, getAssetUrls(key[1]), key, m.loadAttempts, <<>>)
         IN  [m EXCEPT !.pc = IF r.st = "wait" THEN "asset" ELSE "asset_returned",
                       !.amKey = key, !.amTried = r.tried, !.loadAttempts = r.la,
                       !.result = IF r.st = "ok"
                                  THEN [kind |-> "ok", source |-> r.source, error |-> ""]
                                  ELSE IF r.st = "err"
                                  THEN [kind |-> "err", source |-> "",
                                        error |-> AmAllSourcesError]
                                  ELSE NoResult]

\* attemptFallbackLoading, catch (fallbackError): this.currentModelIndex = originalIndex
RestoreIndex_Keep(m) == m
RestoreIndex(m) == [m EXCEPT !.currentModelIndex = m.call.originalIndex]

\* the catch block of loadCurrentModel: the fallback strategy once, else the error
RECURSIVE LoadModelCatch(_)
RECURSIVE LoadModelStart(_)

\* loadCurrentModel() up to its first pending await
LoadModelStart(m) ==
    LET filename == RES_TO_MODEL[m.currentModelIndex].filename IN
    IF filename \in m.loadedModels
    THEN [m EXCEPT !.pc = "done", !.call.session = TRUE,
                   !.result = [kind |-> "ok", source |-> "cache", error |-> ""]]
    ELSE LET a == LoadAssetStart([m EXCEPT !.call.chains = @ + 1],
                                 AttemptKey("models", filename))
         IN  IF a.pc = "asset" THEN a
             ELSE IF a.result.kind = "ok" THEN [a EXCEPT !.pc = "create"]
             ELSE LoadModelCatch(a)

LoadModelCatch(m0) ==
    LET m == [m0 EXCEPT !.call.caught = @ + 1] IN
    IF ~m.fallbackAttempted
    THEN \* attemptFallbackLoading(config, error)
         LET smallestModelIndex == findSmallestAvailableModel
             f == [m EXCEPT !.fallbackAttempted = TRUE]
         IN  IF smallestModelIndex # m.currentModelIndex
             THEN LoadModelStart([f EXCEPT !.call.originalIndex = m.currentModelIndex,
                                           !.call.depth = 2,
                                           !.call.substituted = Append(@, smallestModelIndex),
                                           !.currentModelIndex = smallestModelIndex])
             ELSE MmReject(f, MmUnableError)
    ELSE IF m.call.depth = 2
    THEN \* the fallback call failed: restore the index, all strategies failed
         MmReject(RestoreIndex(m), MmUnableError)
    ELSE MmReject(m, MmFailedError)

MmAssign(m) ==
    /\ mmPc' = IF m.pc = "asset_returned" THEN "done" ELSE m.pc
    /\ mmCall' = m.call
    /\ mmResult' = m.result
    /\ currentModelIndex' = m.currentModelIndex
    /\ fallbackAttempted' = m.fallbackAttempted
    /\ loadedModels' = m.loadedModels
    /\ loadAttempts' = m.loadAttempts
    /\ amKey' = m.amKey
    /\ amTried' = m.amTried

mmRest == <<depVars, ualVars, urlVars, otherVars, pageOrigin, component>>

NewCall(via) ==
    [MmState EXCEPT !.call = [NoCallMM EXCEPT !.via = via, !.depth = 1,
                                              !.startIndex = currentModelIndex],
                    !.result = NoResult, !.amTried = <<>>]

\* modelManager.loadCurrentModel()
MMLoadCurrentModel ==
    /\ component = "mm" /\ mmPc = "idle"
    /\ MmAssign(LoadModelStart(NewCall("loadCurrentModel")))
    /\ UNCHANGED mmRest

\* modelManager.switchToNextModel()
MMSwitchToNextModel ==
    /\ component = "mm" /\ mmPc = "idle"
    /\ LET next == (currentModelIndex + 1) % ModelCount
           m == [NewCall("switchToNextModel") EXCEPT !.currentModelIndex = next,
                                                     !.call.startIndex = next]
       IN  MmAssign(LoadModelStart(m))
    /\ UNCHANGED mmRest

\* assetManager.loadAsset(assetType, filename), called directly
AMLoadAsset(key) ==
    /\ component = "mm" /\ mmPc = "idle"
    /\ MmAssign(LoadAssetStart(NewCall("loadAsset"), key))
    /\ UNCHANGED mmRest

\* the request of the pending remote candidate settles
AMRequestSettles(ok) ==
    /\ component = "mm" /\ mmPc = "asset"
    /\ LET r == AssetSettle(ok, getAssetUrls(amKey[1]), amKey, loadAttempts, amTried)
           a == [MmState EXCEPT !.amTried = r.tried, !.loadAttempts = r.la,
                                !.result = IF r.st = "ok"
                                           THEN [kind |-> "ok", source |-> r.source,
                                                 error |-> ""]
                                           ELSE IF r.st = "err"
                                           THEN [kind |-> "err", source |-> "",
                                                 error |-> AmAllSourcesError]
                                           ELSE NoResult]
       IN  IF r.st = "wait" THEN MmAssign(a)
           ELSE IF mmCall.via = "loadAsset" THEN MmAssign([a EXCEPT !.pc = "done"])
           ELSE IF r.st = "ok" THEN MmAssign([a EXCEPT !.pc = "create"])
           ELSE MmAssign(LoadModelCatch(a))
    /\ UNCHANGED mmRest

\* ort.InferenceSession.create(modelUrl, ...) settles
MMSessionCreate(ok) ==
    /\ component = "mm" /\ mmPc = "create"
    /\ IF ok
       THEN MmAssign([MmState EXCEPT
                !.pc = "done", !.call.session = TRUE,
                !.loadedModels = @ \cup {RES_TO_MODEL[currentModelIndex].filename},
                !.result = [kind |-> "ok", source |-> mmResult.source, error |-> ""]])
       ELSE MmAssign(LoadModelCatch(MmState))
    /\ UNCHANGED mmRest

\* the caller has its result
MMReturn ==
    /\ component = "mm" /\ mmPc = "done"
    /\ mmPc' = "idle"
    /\ mmCall' = NoCallMM
    /\ mmResult' = NoResult
    /\ amKey' = AttemptKey("models", RES_TO_MODEL[0].filename)
    /\ amTried' = <<>>
    /\ UNCHANGED <<currentModelIndex, fallbackAttempted, loadedModels, loadAttempts, mmRest>>

MmInit ==
    /\ mmPc = "idle"
    /\ mmCall = NoCallMM
    /\ mmResult = NoResult
    /\ currentModelIndex = 0
    /\ fallbackAttempted = FALSE
    /\ loadedModels = {}
    /\ loadAttempts = [k \in AttemptKeys |-> NoAttempt]
    /\ amKey = AttemptKey("models", RES_TO_MODEL[0].filename)
    /\ amTried = <<>>

MmNext ==
    \/ MMLoadCurrentModel
    \/ MMSwitchToNextModel
    \/ \E key \in AttemptKeys : AMLoadAsset(key)
    \/ \E ok \in BOOLEAN : AMRequestSettles(ok)
    \/ \E ok \in BOOLEAN : MMSessionCreate(ok)
    \/ MMReturn

-----------------------------------------------------------------------------
(***************************************************************************)
(* The service worker (sw.js) and its Cache Storage.  A generation is a    *)
(* value of CACHE_VERSION; a new generation installs, becomes the active   *)
(* worker and runs its activate handler before it is handed any fetch or   *)
(* message event.  A handler runs as one step; the network decides whether *)
(* a fetch succeeds.                                                       *)
(***************************************************************************)
Generations == 1..MaxGen
CacheKinds == {"static", "models", "runtime"}

\* `static-${CACHE_VERSION}`, `models-${CACHE_VERSION}`, `runtime-${CACHE_VERSION}`
STATIC_CACHE(version) == [kind |-> "static", version |-> version]
MODELS_CACHE_Unversioned(version) == [kind |-> "models", version |-> 0]
MODELS_CACHE(version) == [kind |-> "models", version |-> version]
RUNTIME_CACHE(version) == [kind |-> "runtime", version |-> version]

CacheNames == [kind : CacheKinds, version : {0} \cup Generations]

STATIC_ASSETS == {"/index.html"}
MODEL_FILES == {"/models/yolov10n.onnx"}
RuntimeUrls == {"/favicon.ico"}

\* What fetch() can come to: a complete response with a 2xx status, a 2xx
\* response whose body breaks off, a response with another status, or a
\* rejection.
NetworkOutcomes == {"ok", "truncated", "notok", "failed"}

\* response.ok
ResponseOk_Any(outcome) == outcome # "failed"
ResponseOk(outcome) == outcome \in {"ok", "truncated"}

\* A cache of Cache Storage: whether it exists, and its entries, each with the
\* generation of the worker that stored it and the response it holds.
NoCache == [exists |-> FALSE, entries |-> {}]

\* caches.open(name): the cache is created when it does not exist
CachesOpen(store, name) == [store EXCEPT ![name].exists = TRUE]

\* cache.match(request) on the cache opened under `name`
CacheMatch_Miss(store, name, url) == {}
CacheMatch(store, name, url) == {e \in store[name].entries : e.url = url}

\* the entries after cache.put(request, response): put reads the body to its
\* end and stores nothing when the body breaks off
EntriesPut(entries, url, version, outcome) ==
    IF outcome = "truncated" THEN entries
    ELSE {e \in entries : e.url # url}
             \cup {[url |-> url, storedBy |-> version, status |-> outcome]}

\* cache.put(request, response) by the worker of generation `version`
CachePut(store, name, url, version, outcome) ==
    [store EXCEPT ![name].entries = EntriesPut(@, url, version, outcome)]

\* caches.delete(name)
CachesDelete(store, name) == [store EXCEPT ![name] = NoCache]

\* caches.keys()
CachesKeys(store) == {n \in CacheNames : store[n].exists}

\* the cleanup of the activate handler: which cache names it deletes
ActivateDeletes(cacheName, version) ==
    \/ cacheName.kind = "static" /\ cacheName # STATIC_CACHE(version)
    \/ cacheName.kind = "models" /\ cacheName # MODELS_CACHE(version)

NoResponse == [url |-> "", from |-> "none", storedBy |-> 0, network |-> FALSE]

\* cacheModelsInBackground of the active worker.  `cache` is the Cache object
\* it got from caches.open: it stays bound to the list of entries it was
\* opened on, and caches.delete takes that list out of Cache Storage without
\* touching the object.  detached: the list is no longer in Cache Storage;
\* entries: what the list holds from then on.
BackgroundStart == [stage |-> "match", detached |-> FALSE, entries |-> {}, response |-> "none"]

\* caches.delete(MODELS_CACHE) as seen by a Cache object opened on that cache
Detach(job, store, name) ==
    IF job.stage \in {"match", "fetch", "put"} /\ ~job.detached
    THEN [job EXCEPT !.detached = TRUE, !.entries = store[name].entries]
    ELSE job

\* cache.put through the Cache object of the job: the entries of Cache Storage
\* afterwards
PutThroughHandle_ByName(job, store, name, url, version) ==
    CachePut(store, name, url, version, job.response)
PutThroughHandle(job, store, name, url, version) ==
    IF job.detached THEN store
    ELSE CachePut(store, name, url, version, job.response)

swRest == <<depVars, ualVars, mmVars, urlVars, swmVars, amcVars, sizeVars, avVars, candVars,
           canvasVars, dlVars, orchVars, progVars, ebVars, appVars, pageOrigin, component>>

\* A new generation: install (the static assets are cached), skipWaiting, then
\* the activate handler, which ends by calling cacheModelsInBackground.  The
\* superseded worker and what it was doing are gone.
SwUpgrade ==
    /\ component = "sw"
    /\ CACHE_VERSION < MaxGen
    /\ LET v == CACHE_VERSION + 1
           opened == CachesOpen(cacheStorage, STATIC_CACHE(v))
           installed == [opened EXCEPT ![STATIC_CACHE(v)].entries =
                            {[url |-> u, storedBy |-> v, status |-> "ok"] : u \in STATIC_ASSETS}]
           cleaned == [n \in CacheNames |->
                          IF installed[n].exists /\ ActivateDeletes(n, v)
                          THEN NoCache ELSE installed[n]]
       IN  /\ CACHE_VERSION' = v
           /\ cacheStorage' = CachesOpen(cleaned, MODELS_CACHE(v))
    /\ swResponse' = NoResponse
    /\ swStatus' = [staticAssets |-> 0, modelsCount |-> 0, cacheVersion |-> 0]
    /\ swBackground' = BackgroundStart
    /\ swCleared' = "no"
    /\ UNCHANGED <<modelsStoredBy, swRest>>

\* handleModelRequest(request): cache first, network fallback
handleModelRequest(url, outcome) ==
    /\ component = "sw"
    /\ LET name == MODELS_CACHE(CACHE_VERSION)
           opened == CachesOpen(cacheStorage, name)
           cachedResponse == CacheMatch(opened, name, url)
       IN  IF cachedResponse # {}
           THEN /\ swResponse' = [url |-> url, from |-> "cache", network |-> FALSE,
                                  storedBy |-> (CHOOSE e \in cachedResponse : TRUE).storedBy]
                /\ cacheStorage' = opened
                /\ UNCHANGED <<modelsStoredBy, swCleared>>
           ELSE /\ swResponse' =
                       [url |-> url, storedBy |-> 0, network |-> TRUE,
                        from |-> IF outcome \in {"ok", "notok"} THEN "network" ELSE "error"]
                /\ cacheStorage' = IF ResponseOk(outcome)
                                   THEN CachePut(opened, name, url, CACHE_VERSION, outcome)
                                   ELSE opened
                /\ modelsStoredBy' = IF outcome = "ok"
                                     THEN [modelsStoredBy EXCEPT ![url] = @ \cup {CACHE_VERSION}]
                                     ELSE modelsStoredBy
                /\ swCleared' = "no"
    /\ UNCHANGED <<CACHE_VERSION, swStatus, swBackground, swRest>>

\* handleStaticRequest(request): cache first; the network response is cached
handleStaticRequest(url, networkOk) ==
    /\ component = "sw"
    /\ LET name == STATIC_CACHE(CACHE_VERSION)
           opened == CachesOpen(cacheStorage, name)
           cachedResponse == CacheMatch(opened, name, url)
       IN  IF cachedResponse # {}
           THEN /\ swResponse' = [url |-> url, from |-> "cache", network |-> FALSE,
                                  storedBy |-> (CHOOSE e \in cachedResponse : TRUE).storedBy]
                /\ cacheStorage' = opened
           ELSE IF networkOk
           THEN /\ swResponse' = [url |-> url, from |-> "network", storedBy |-> 0,
                                  network |-> TRUE]
                /\ cacheStorage' = CachePut(opened, name, url, CACHE_VERSION, "ok")
           ELSE /\ swResponse' = [url |-> url, from |-> "error", storedBy |-> 0,
                                  network |-> TRUE]
                /\ cacheStorage' = opened
    /\ UNCHANGED <<CACHE_VERSION, swStatus, modelsStoredBy, swBackground, swCleared, swRest>>

\* handleRuntimeRequest(request): network first, cache fallback
handleRuntimeRequest(url, networkOk) ==
    /\ component = "sw"
    /\ LET name == RUNTIME_CACHE(CACHE_VERSION)
           opened == CachesOpen(cacheStorage, name)
           cachedResponse == CacheMatch(opened, name, url)
       IN  IF networkOk
           THEN /\ swResponse' = [url |-> url, from |-> "network", storedBy |-> 0,
                                  network |-> TRUE]
                /\ cacheStorage' = CachePut(opened, name, url, CACHE_VERSION, "ok")
           ELSE IF cachedResponse # {}
           THEN /\ swResponse' = [url |-> url, from |-> "cache", network |-> TRUE,
                                  storedBy |-> (CHOOSE e \in cachedResponse : TRUE).storedBy]
                /\ cacheStorage' = opened
           ELSE /\ swResponse' = [url |-> url, from |-> "error", storedBy |-> 0,
                                  network |-> TRUE]
                /\ cacheStorage' = opened
    /\ UNCHANGED <<CACHE_VERSION, swStatus, modelsStoredBy, swBackground, swCleared, swRest>>

\* cacheSpecificModel(modelUrl)
cacheSpecificModel(url, outcome) ==
    /\ component = "sw"
    /\ LET name == MODELS_CACHE(CACHE_VERSION)
           opened == CachesOpen(cacheStorage, name)
       IN  cacheStorage' = IF ResponseOk(outcome)
                           THEN CachePut(opened, name, url, CACHE_VERSION, outcome)
                           ELSE opened
    /\ modelsStoredBy' = IF outcome = "ok"
                         THEN [modelsStoredBy EXCEPT ![url] = @ \cup {CACHE_VERSION}]
                         ELSE modelsStoredBy
    /\ swCleared' = "no"
    /\ UNCHANGED <<CACHE_VERSION, swResponse, swStatus, swBackground, swRest>>

\* cacheModelsInBackground: cache.match(modelUrl) on its Cache object
BackgroundMatch(url) ==
    /\ component = "sw"
    /\ swBackground.stage = "match"
    /\ LET entries == IF swBackground.detached THEN swBackground.entries
                      ELSE cacheStorage[MODELS_CACHE(CACHE_VERSION)].entries
           cachedResponse == {e \in entries : e.url = url}
       IN  swBackground' = [swBackground EXCEPT
                               !.stage = IF cachedResponse # {} THEN "done" ELSE "fetch"]
    /\ UNCHANGED <<CACHE_VERSION, cacheStorage, swResponse, swStatus, modelsStoredBy,
                   swCleared, swRest>>

\* cacheModelsInBackground: fetch(modelUrl) settles
BackgroundFetched(outcome) ==
    /\ component = "sw"
    /\ swBackground.stage = "fetch"
    /\ swBackground' = IF ResponseOk(outcome)
                       THEN [swBackground EXCEPT !.stage = "put", !.response = outcome]
                       ELSE [swBackground EXCEPT !.stage = "done"]
    /\ UNCHANGED <<CACHE_VERSION, cacheStorage, swResponse, swStatus, modelsStoredBy,
                   swCleared, swRest>>

\* cacheModelsInBackground: cache.put(modelUrl, response) settles
BackgroundPut(url) ==
    /\ component = "sw"
    /\ swBackground.stage = "put"
    /\ cacheStorage' = PutThroughHandle(swBackground, cacheStorage,
                                        MODELS_CACHE(CACHE_VERSION), url, CACHE_VERSION)
    /\ swBackground' =
           [swBackground EXCEPT
               !.stage = "done",
               !.entries = IF swBackground.detached
                           THEN EntriesPut(@, url, CACHE_VERSION, swBackground.response)
                           ELSE @]
    /\ modelsStoredBy' = IF swBackground.response = "ok" /\ ~swBackground.detached
                         THEN [modelsStoredBy EXCEPT ![url] = @ \cup {CACHE_VERSION}]
                         ELSE modelsStoredBy
    /\ UNCHANGED <<CACHE_VERSION, swResponse, swStatus, swCleared, swRest>>

\* clearModelCache()
clearModelCache ==
    /\ component = "sw"
    /\ cacheStorage' = CachesDelete(cacheStorage, MODELS_CACHE(CACHE_VERSION))
    /\ swBackground' = Detach(swBackground, cacheStorage, MODELS_CACHE(CACHE_VERSION))
    /\ swCleared' = "yes"
    /\ UNCHANGED <<CACHE_VERSION, swResponse, swStatus, modelsStoredBy, swRest>>

\* getCacheStatus()
getCacheStatus ==
    /\ component = "sw"
    /\ LET opened == CachesOpen(CachesOpen(cacheStorage, STATIC_CACHE(CACHE_VERSION)),
                                MODELS_CACHE(CACHE_VERSION))
       IN  /\ cacheStorage' = opened
           /\ swStatus' =
                  [staticAssets |-> Cardinality(opened[STATIC_CACHE(CACHE_VERSION)].entries),
                   modelsCount |-> Cardinality(opened[MODELS_CACHE(CACHE_VERSION)].entries),
                   cacheVersion |-> CACHE_VERSION]
    /\ swCleared' = IF swCleared = "no" THEN "no" ELSE "reported"
    /\ UNCHANGED <<CACHE_VERSION, swResponse, modelsStoredBy, swBackground, swRest>>

\* generation 1 is installed and active, and has just called
\* cacheModelsInBackground
SwInit ==
    /\ CACHE_VERSION = 1
    /\ cacheStorage = [n \in CacheNames |->
                          IF n = STATIC_CACHE(1)
                          THEN [exists |-> TRUE,
                                entries |-> {[url |-> u, storedBy |-> 1, status |-> "ok"]
                                                : u \in STATIC_ASSETS}]
                          ELSE IF n = MODELS_CACHE(1)
                          THEN [exists |-> TRUE, entries |-> {}]
                          ELSE NoCache]
    /\ swResponse = NoResponse
    /\ swStatus = [staticAssets |-> 0, modelsCount |-> 0, cacheVersion |-> 0]
    /\ modelsStoredBy = [u \in MODEL_FILES |-> {}]
    /\ swBackground = BackgroundStart
    /\ swCleared = "no"

SwNext ==
    \/ SwUpgrade
    \/ \E url \in MODEL_FILES, o \in NetworkOutcomes : handleModelRequest(url, o)
    \/ \E url \in STATIC_ASSETS, ok \in BOOLEAN : handleStaticRequest(url, ok)
    \/ \E url \in RuntimeUrls, ok \in BOOLEAN : handleRuntimeRequest(url, ok)
    \/ \E url \in MODEL_FILES, o \in NetworkOutcomes : cacheSpecificModel(url, o)
    \/ \E url \in MODEL_FILES : BackgroundMatch(url)
    \/ \E o \in NetworkOutcomes : BackgroundFetched(o)
    \/ \E url \in MODEL_FILES : BackgroundPut(url)
    \/ clearModelCache
    \/ getCacheStatus

-----------------------------------------------------------------------------
(***************************************************************************)
(* ServiceWorkerManager: the requests of the page to the service worker.   *)
(* Each call creates a MessageChannel, installs its handler on port1 and   *)
(* transfers port2 with the request; the worker answers on event.ports[0]. *)
(* Notifications of the worker arrive at the 'message' listener of         *)
(* navigator.serviceWorker.                                                *)
(***************************************************************************)
CallSlots == 1..MaxCalls
Channels == 1..MaxCalls
RequestOps == {"cacheModel", "clearModelCache", "updateCacheStats"}
PushTypes == {"CACHE_UPDATED", "OFFLINE_READY", "MODEL_CACHED"}

NoSwmCall == [op |-> "none", st |-> "none", channel |-> 0, nested |-> FALSE,
              url |-> "", cleared |-> FALSE,
              settledBy |-> [kind |-> "none", replyTo |-> 0, data |-> "none"]]
NoPort == [onmessage |-> 0, queue |-> <<>>]

FreeCallSlots == {c \in CallSlots : swmCalls[c].op = "none"}
\* the channels held by the calls other than c
ChannelsOfOthers(c) == {swmCalls[d].channel : d \in CallSlots \ {c}} \ {0}

\* the channel of a finished call is dropped
ReleasePort(ports, c) ==
    IF swmCalls[c].channel = 0 \/ swmCalls[c].channel \in ChannelsOfOthers(c)
    THEN ports
    ELSE [ports EXCEPT ![swmCalls[c].channel] = NoPort]

\* new MessageChannel(): a channel no other call holds
NewChannel_Shared(used) == 1
NewChannel(used) == Min(Channels \ used)

\* the type of the message a call posts
MessageType(op) ==
    CASE op = "cacheModel" -> "CACHE_MODEL"
      [] op = "clearModelCache" -> "CLEAR_MODEL_CACHE"
      [] op = "updateCacheStats" -> "GET_CACHE_STATUS"

\* the body of cacheModel, clearModelCache and updateCacheStats up to the await:
\* the handler of the call is installed on port1, the request is posted
PostRequest(c, op, nested, url) ==
    LET ch == NewChannel(ChannelsOfOthers(c))
    IN  /\ swmCalls' = [swmCalls EXCEPT ![c] =
                           [NoSwmCall EXCEPT !.op = op, !.st = "pending",
                                             !.channel = ch, !.nested = nested,
                                             !.url = url]]
        /\ swmPorts' = [ReleasePort(swmPorts, c) EXCEPT ![ch].onmessage = c]
        /\ swInbox' = IF controller
                      THEN swInbox \cup {[type |-> MessageType(op), port |-> ch,
                                          from |-> c, url |-> url]}
                      ELSE swInbox

\* what the operation of the worker behind a message can come to: the fetch of
\* cacheSpecificModel has one of the network outcomes; clearModelCache and
\* getCacheStatus end or throw
WorkerOutcomes(type) ==
    IF type = "CACHE_MODEL" THEN NetworkOutcomes ELSE {"done", "thrown"}

\* what the message handler posts on event.ports[0]: CACHE_MODEL has a .then
\* and a .catch, the other two a .then only
Reply(type, outcome) ==
    CASE type = "CACHE_MODEL" ->
             IF outcome \in {"failed", "truncated"} THEN "failure" ELSE "success"
      [] type = "CLEAR_MODEL_CACHE" -> IF outcome = "done" THEN "success" ELSE "none"
      [] type = "GET_CACHE_STATUS" -> IF outcome = "done" THEN "status" ELSE "none"

\* Cache Storage after the operation of the worker behind a message
StoreAfter(store, version, type, url, outcome) ==
    CASE type = "CACHE_MODEL" ->
             LET opened == CachesOpen(store, MODELS_CACHE(version))
             IN  IF ResponseOk(outcome)
                 THEN CachePut(opened, MODELS_CACHE(version), url, version, outcome)
                 ELSE opened
      [] type = "CLEAR_MODEL_CACHE" ->
             IF outcome = "done" THEN CachesDelete(store, MODELS_CACHE(version)) ELSE store
      [] type = "GET_CACHE_STATUS" ->
             IF outcome = "done"
             THEN CachesOpen(CachesOpen(store, STATIC_CACHE(version)), MODELS_CACHE(version))
             ELSE store

swmRest == <<depVars, ualVars, mmVars, urlVars, swVars, amcVars, sizeVars, avVars, candVars, canvasVars,
    dlVars, orchVars, progVars, ebVars, appVars, pageOrigin,
            component>>

swmMsgRest == <<depVars, ualVars, mmVars, urlVars, amcVars, sizeVars, avVars, candVars, canvasVars,
    dlVars, orchVars, progVars, ebVars, appVars, pageOrigin,
            component>>

\* cacheModel(modelUrl) / clearModelCache() called by the application
SwmCall(op, url) ==
    /\ component = "swm"
    /\ op \in {"cacheModel", "clearModelCache"}
    /\ url \in (IF op = "cacheModel" THEN MODEL_FILES ELSE {""})
    /\ FreeCallSlots # {}
    /\ PostRequest(Min(FreeCallSlots), op, FALSE, url)
    /\ UNCHANGED <<controller, swmPush, offlineReady, swmRest>>

\* updateCacheStats() called by the application: returns at once without a
\* controller
SwmUpdateCacheStats ==
    /\ component = "swm"
    /\ controller
    /\ FreeCallSlots # {}
    /\ PostRequest(Min(FreeCallSlots), "updateCacheStats", FALSE, "")
    /\ UNCHANGED <<controller, swmPush, offlineReady, swmRest>>

\* the message handler of the worker: the operation runs to its end and the
\* reply, when the handler has one for that end, is posted on event.ports[0].
\* A clear that went through is noted in the calls of cacheModel under way.
SwMessage(m, outcome) ==
    /\ component = "swm"
    /\ m \in swInbox
    /\ outcome \in WorkerOutcomes(m.type)
    /\ swInbox' = swInbox \ {m}
    /\ cacheStorage' = StoreAfter(cacheStorage, CACHE_VERSION, m.type, m.url, outcome)
    /\ swmPorts' = IF Reply(m.type, outcome) = "none" THEN swmPorts
                   ELSE [swmPorts EXCEPT ![m.port].queue =
                            Append(@, [replyTo |-> m.from,
                                       data |-> Reply(m.type, outcome)])]
    /\ swmCalls' = IF m.type = "CLEAR_MODEL_CACHE" /\ outcome = "done"
                   THEN [c \in CallSlots |->
                            IF swmCalls[c].op = "cacheModel"
                            THEN [swmCalls[c] EXCEPT !.cleared = TRUE]
                            ELSE swmCalls[c]]
                   ELSE swmCalls
    /\ UNCHANGED <<CACHE_VERSION, swResponse, swStatus, modelsStoredBy, swBackground,
                   swCleared>>
    /\ UNCHANGED <<controller, swmPush, offlineReady, swmMsgRest>>

\* port1.onmessage: the handler installed on the port settles the promise of
\* its call (a promise settles once)
PortMessage(ch) ==
    /\ component = "swm"
    /\ swmPorts[ch].queue # <<>>
    /\ LET msg == Head(swmPorts[ch].queue)
           c == swmPorts[ch].onmessage
       IN  /\ swmPorts' = [swmPorts EXCEPT ![ch].queue = Tail(@)]
           /\ swmCalls' = IF c # 0 /\ swmCalls[c].st = "pending"
                          THEN [swmCalls EXCEPT
                                   ![c].st = IF swmCalls[c].op = "cacheModel"
                                                /\ msg.data # "success"
                                             THEN "rejected" ELSE "resolved",
                                   ![c].settledBy = [kind |-> "reply",
                                                     replyTo |-> msg.replyTo,
                                                     data |-> msg.data]]
                          ELSE swmCalls
    /\ UNCHANGED <<swInbox, controller, swmPush, offlineReady, swmRest>>

\* the code after `await promise`: clearModelCache goes on with
\* updateCacheStats(), the others return
SwmContinue(c) ==
    /\ component = "swm"
    /\ swmCalls[c].st \in {"resolved", "rejected"}
    /\ IF swmCalls[c].op = "clearModelCache" /\ controller
       THEN PostRequest(c, "updateCacheStats", TRUE, "")
       ELSE /\ swmCalls' = [swmCalls EXCEPT ![c] = NoSwmCall]
            /\ swmPorts' = ReleasePort(swmPorts, c)
            /\ UNCHANGED swInbox
    /\ UNCHANGED <<controller, swmPush, offlineReady, swmRest>>

\* a notification is posted to the clients
SwPush(type) ==
    /\ component = "swm"
    /\ controller
    /\ swmPush = "none"
    /\ swmPush' = type
    /\ UNCHANGED <<swmCalls, swmPorts, swInbox, controller, offlineReady, swmRest>>

\* handleServiceWorkerMessage(event)
handleServiceWorkerMessage ==
    /\ component = "swm"
    /\ swmPush # "none"
    /\ swmPush' = "none"
    /\ IF swmPush \in {"CACHE_UPDATED", "MODEL_CACHED"}
       THEN /\ FreeCallSlots # {}
            /\ PostRequest(Min(FreeCallSlots), "updateCacheStats", FALSE, "")
            /\ UNCHANGED offlineReady
       ELSE /\ offlineReady' = TRUE
            /\ UNCHANGED <<swmCalls, swmPorts, swInbox>>
    /\ UNCHANGED <<controller, swmRest>>

SwmInit ==
    /\ controller \in BOOLEAN
    /\ component # "swm" => controller
    /\ swmCalls = [c \in CallSlots |-> NoSwmCall]
    /\ swmPorts = [ch \in Channels |-> NoPort]
    /\ swInbox = {}
    /\ swmPush = "none"
    /\ offlineReady = FALSE

SwmNext ==
    \/ \E op \in RequestOps, url \in MODEL_FILES \cup {""} : SwmCall(op, url)
    \/ SwmUpdateCacheStats
    \/ \E m \in swInbox : \E outcome \in WorkerOutcomes(m.type) : SwMessage(m, outcome)
    \/ \E ch \in Channels : PortMessage(ch)
    \/ \E c \in CallSlots : SwmContinue(c)
    \/ \E type \in PushTypes : SwPush(type)
    \/ handleServiceWorkerMessage

-----------------------------------------------------------------------------
(***************************************************************************)
(* AssetManager over time: the record of one asset in loadAttempts, the    *)
(* clock, and the cleanup the constructor schedules with setInterval.  A   *)
(* call of loadAsset is taken as one step here; the network decides        *)
(* whether the CDN candidate is verified.                                  *)
(***************************************************************************)
maxCacheAge == 300000
cleanupIntervalMs == 60000

NoRecord == [present |-> FALSE, success |-> FALSE, source |-> "", timestamp |-> 0]
NoLoad == [served |-> "none", network |-> FALSE, resolvedBefore |-> FALSE, source |-> ""]

amcRest == <<depVars, ualVars, mmVars, urlVars, swVars, swmVars, sizeVars, avVars, candVars, canvasVars,
    dlVars, orchVars, progVars, ebVars, appVars, pageOrigin,
            component>>

\* cleanupOldAttempts(): the record is deleted when it is older than maxCacheAge
cleanupOldAttempts(attempt, t) ==
    IF attempt.present /\ t - attempt.timestamp > maxCacheAge THEN NoRecord ELSE attempt

\* the interval timer fires: a minute has passed
AmcCleanupInterval ==
    /\ component = "amc"
    /\ amcNow + cleanupIntervalMs <= MaxTicks * cleanupIntervalMs
    /\ amcNow' = amcNow + cleanupIntervalMs
    /\ amcAttempt' = cleanupOldAttempts(amcAttempt, amcNow + cleanupIntervalMs)
    /\ UNCHANGED <<amcLoad, amcResolved, amcRest>>

\* loadAsset('models', filename): the recorded success, else CDN, then local
AmcLoadAsset(cdnOk) ==
    /\ component = "amc"
    /\ IF amcAttempt.present /\ amcAttempt.success
       THEN /\ amcLoad' = [served |-> "record", network |-> FALSE,
                           resolvedBefore |-> amcResolved, source |-> amcAttempt.source]
            /\ UNCHANGED amcAttempt
       ELSE LET source == IF cdnOk THEN "CDN" ELSE "Local" IN
            /\ amcLoad' = [served |-> "chain", network |-> TRUE,
                           resolvedBefore |-> amcResolved, source |-> source]
            /\ amcAttempt' = [present |-> TRUE, success |-> TRUE, source |-> source,
                              timestamp |-> amcNow]
    /\ amcResolved' = TRUE
    /\ UNCHANGED <<amcNow, amcRest>>

AmcInit ==
    /\ amcNow = 0
    /\ amcAttempt = NoRecord
    /\ amcLoad = NoLoad
    /\ amcResolved = FALSE

AmcNext ==
    \/ AmcCleanupInterval
    \/ \E cdnOk \in BOOLEAN : AmcLoadAsset(cdnOk)

-----------------------------------------------------------------------------
(***************************************************************************)
(* The size checks of the AssetManager: checkAssetHead (used by            *)
(* verifyAssetAvailability) and verifyAssetAvailabilityLegacy (used by     *)
(* loadAsset), applied to a response with a content length.                *)
(***************************************************************************)
\* where a candidate URL begins
UrlPrefixes == {"https://example-cdn.com/models/", "./models/", "/models/"}

\* url.startsWith('./')
StartsWithDotSlash(url) == url = "./models/"

\* options.expectedSize: the sizes of RES_TO_MODEL, or none (0)
ExpectedSizes == {0} \cup {RES_TO_MODEL[i].expectedSize : i \in DOMAIN RES_TO_MODEL}

\* content-length of the response (0: no header), around the tolerance of each
\* expected size
ContentLengths ==
    {0, 5000000, 9400000}
    \cup UNION {{e - (e \div sizeToleranceDiv) - 1, e - (e \div sizeToleranceDiv),
                 e, e + (e \div sizeToleranceDiv), e + (e \div sizeToleranceDiv) + 1}
                : e \in ExpectedSizes \ {0}}

Abs(x) == IF x < 0 THEN -x ELSE x

\* Math.abs(contentLength - expectedSize) / expectedSize > tolerance, with the
\* default tolerance 0.1
SizeDiffExceeds(contentLength, expectedSize) ==
    Abs(contentLength - expectedSize) * sizeToleranceDiv > expectedSize

\* checkAssetHead(url, options) for a response with status ok or not
checkAssetHead(url, responseOk, contentLength, expectedSize) ==
    IF ~responseOk THEN [verdict |-> "throw", error |-> "HTTP", warned |-> FALSE]
    ELSE IF expectedSize # 0 /\ contentLength > 0
            /\ SizeDiffExceeds(contentLength, expectedSize)
    THEN [verdict |-> "accept", error |-> "", warned |-> TRUE]
    ELSE [verdict |-> "accept", error |-> "", warned |-> FALSE]

\* verifyAssetAvailabilityLegacy(url, options)
verifyAssetAvailabilityLegacy(url, responseOk, contentLength, expectedSize) ==
    IF ~responseOk THEN [verdict |-> "throw", error |-> "HTTP", warned |-> FALSE]
    ELSE IF expectedSize # 0 /\ contentLength > 0
            /\ SizeDiffExceeds(contentLength, expectedSize)
    THEN IF ~StartsWithDotSlash(url)
         THEN [verdict |-> "throw", error |-> "Size mismatch", warned |-> TRUE]
         ELSE [verdict |-> "accept", error |-> "", warned |-> TRUE]
    ELSE [verdict |-> "accept", error |-> "", warned |-> FALSE]

NoCheck == [by |-> "none", verdict |-> "none", error |-> "", warned |-> FALSE]

sizeRest == <<depVars, ualVars, mmVars, urlVars, swVars, swmVars, amcVars, avVars,
              candVars, canvasVars,
    dlVars, orchVars, progVars, ebVars, appVars, pageOrigin, component>>

\* verifyAssetAvailability reaches its HEAD check (CDN candidates only)
SizeCheckHead ==
    /\ component = "size"
    /\ sizeCheck.by = "none"
    /\ sizeInput.url \notin {"./models/", "/models/"}
    /\ LET r == checkAssetHead(sizeInput.url, sizeInput.responseOk,
                               sizeInput.contentLength, sizeInput.expectedSize)
       IN  sizeCheck' = [by |-> "checkAssetHead", verdict |-> r.verdict,
                         error |-> r.error, warned |-> r.warned]
    /\ UNCHANGED <<sizeInput, sizeRest>>

\* verifyAssetAvailabilityLegacy is called with the candidate
SizeCheckLegacy ==
    /\ component = "size"
    /\ sizeCheck.by = "none"
    /\ LET r == verifyAssetAvailabilityLegacy(sizeInput.url, sizeInput.responseOk,
                                              sizeInput.contentLength,
                                              sizeInput.expectedSize)
       IN  sizeCheck' = [by |-> "verifyAssetAvailabilityLegacy", verdict |-> r.verdict,
                         error |-> r.error, warned |-> r.warned]
    /\ UNCHANGED <<sizeInput, sizeRest>>

SizeQuiet ==
    /\ sizeInput = [url |-> "./models/", responseOk |-> TRUE, contentLength |-> 0,
                    expectedSize |-> 0]
    /\ sizeCheck = NoCheck

SizeInit ==
    /\ sizeInput \in [url : UrlPrefixes, responseOk : BOOLEAN,
                      contentLength : ContentLengths, expectedSize : ExpectedSizes]
    /\ sizeCheck = NoCheck

SizeNext ==
    \/ SizeCheckHead
    \/ SizeCheckLegacy

-----------------------------------------------------------------------------
(***************************************************************************)
(* UnifiedAssetLoader.checkAvailability(url) for one url: the entry of the *)
(* url in availabilityCache, the clock, and the HEAD probes in flight.  A  *)
(* probe ends within its 5 s timeout; between probes time passes in one    *)
(* long step.                                                              *)
(***************************************************************************)
CACHE_TIMEOUT_MS == 300000
probeTimeoutMs == 5000

ProbeOutcomes == {"ok", "notOk", "throws"}

NoEntry == [present |-> FALSE, available |-> FALSE, timestamp |-> 0]
NoAvCall == [kind |-> "none", value |-> FALSE, start |-> 0, at |-> 0, entry |-> NoEntry]

\* cached && (Date.now() - cached.timestamp) < this.cacheTimeout
Fresh_IgnoreAge(cached, t) == cached.present
Fresh(cached, t) == cached.present /\ t - cached.timestamp < CACHE_TIMEOUT_MS

\* what a settled probe writes into the cache: response.ok, or false from the
\* catch block
ProbeEntry(outcome, t) ==
    [present |-> TRUE, available |-> (outcome = "ok"), timestamp |-> t]

avRest == <<depVars, ualVars, mmVars, urlVars, swVars, swmVars, amcVars, sizeVars,
            candVars, canvasVars,
    dlVars, orchVars, progVars, ebVars, appVars, pageOrigin, component>>

\* checkAvailability(url) up to its return or its await
AvCheckAvailability ==
    /\ component = "avail"
    /\ IF Fresh(availabilityCache, avNow)
       THEN /\ avCall' = [kind |-> "cached", value |-> availabilityCache.available,
                          start |-> avNow, at |-> avNow, entry |-> availabilityCache]
            /\ UNCHANGED avProbes
       ELSE /\ Len(avProbes) < MaxProbes
            /\ avProbes' = Append(avProbes, [start |-> avNow, entry |-> availabilityCache])
            /\ UNCHANGED avCall
    /\ UNCHANGED <<avNow, availabilityCache, avRest>>

\* the HEAD request of probe i settles: response.ok, a response that is not ok,
\* or a rejection (network error, timeout)
AvProbeSettles(i, outcome) ==
    /\ component = "avail"
    /\ i \in 1..Len(avProbes)
    /\ availabilityCache' = ProbeEntry(outcome, avNow)
    /\ avCall' = [kind |-> "probe", value |-> (outcome = "ok"),
                  start |-> avProbes[i].start, at |-> avNow, entry |-> avProbes[i].entry]
    /\ avProbes' = SubSeq(avProbes, 1, i - 1) \o SubSeq(avProbes, i + 1, Len(avProbes))
    /\ UNCHANGED <<avNow, avRest>>

\* the steps of the clock while no probe is in flight: just below the cache
\* timeout, and the cache timeout itself
IdleSteps == {CACHE_TIMEOUT_MS - probeTimeoutMs, CACHE_TIMEOUT_MS}

\* Date.now() advances: by the probe timeout at most while a probe is in
\* flight, by an idle step otherwise
AvTick(d) ==
    /\ component = "avail"
    /\ IF avProbes # <<>> THEN d = probeTimeoutMs ELSE d \in IdleSteps
    /\ \A i \in 1..Len(avProbes) : avNow + d - avProbes[i].start <= probeTimeoutMs
    /\ avNow + d <= MaxAvNow
    /\ avNow' = avNow + d
    /\ UNCHANGED <<availabilityCache, avProbes, avCall, avRest>>

\* cleanupCache()
cleanupCache ==
    /\ component = "avail"
    /\ availabilityCache.present
    /\ availabilityCache' = IF avNow - availabilityCache.timestamp > CACHE_TIMEOUT_MS
                            THEN NoEntry ELSE availabilityCache
    /\ UNCHANGED <<avNow, avProbes, avCall, avRest>>

AvInit ==
    /\ avNow = 0
    /\ availabilityCache = NoEntry
    /\ avProbes = <<>>
    /\ avCall = NoAvCall

AvNext ==
    \/ AvCheckAvailability
    \/ \E i \in 1..MaxProbes, outcome \in ProbeOutcomes : AvProbeSettles(i, outcome)
    \/ \E d \in {probeTimeoutMs} \cup IdleSteps : AvTick(d)
    \/ cleanupCache

-----------------------------------------------------------------------------
(***************************************************************************)
(* One candidate of a source chain as verifyAssetAvailability, loadAsset   *)
(* and loadModelFallback treat it: a URL that counts as local is reported  *)
(* at once, any other URL needs a request.  A URL is the sequence of its   *)
(* leading characters followed by the rest of the path.                    *)
(***************************************************************************)
\* cdnConfig.baseUrls / assets.*.cdnBaseUrl, cdnConfig.fallbackUrls /
\* assets.*.localBaseUrl, and a root-relative path
CandidateUrls ==
    { <<"h", "t", "tps://example-cdn.com/models/">>,
      <<"h", "t", "tps://cdn.jsdelivr.net/npm/onnxruntime-web@1.18.0/dist/">>,
      <<".", "/", "models/">>,
      <<".", "/", "lib/">>,
      <<"/", "m", "odels/">> }

\* the URLs loadModelFallback builds
FallbackUrls == { <<"h", "t", "tps://example-cdn.com/models/">>, <<".", "/", "models/">> }

\* url.startsWith(prefix) for a prefix of one or two characters
StartsWith(url, prefix) ==
    /\ Len(url) >= Len(prefix)
    /\ \A i \in 1..Len(prefix) : url[i] = prefix[i]

\* AssetManager: url.startsWith('./') || url.startsWith('/')
AmIsLocal_Never(url) == FALSE
AmIsLocal(url) == StartsWith(url, <<".", "/">>) \/ StartsWith(url, <<"/">>)

\* loadModelFallback: url.startsWith('./')
UalIsLocal(url) == StartsWith(url, <<".", "/">>)

NoReport == [by |-> "none", available |-> FALSE, network |-> FALSE]

candRest == <<depVars, ualVars, mmVars, urlVars, swVars, swmVars, amcVars, sizeVars,
              avVars, canvasVars,
    dlVars, orchVars, progVars, ebVars, appVars, pageOrigin, component>>

\* verifyAssetAvailability: the body of the loop for the candidate
CandVerifyAssetAvailability(headOk) ==
    /\ component = "cand" /\ candReport.by = "none"
    /\ candReport' =
           IF AmIsLocal(candUrl)
           THEN [by |-> "verifyAssetAvailability", available |-> TRUE, network |-> FALSE]
           ELSE [by |-> "verifyAssetAvailability", available |-> headOk, network |-> TRUE]
    /\ UNCHANGED <<candUrl, candRest>>

\* loadAsset: the body of the loop for the candidate
CandLoadAsset(requestOk) ==
    /\ component = "cand" /\ candReport.by = "none"
    /\ candReport' =
           IF AmIsLocal(candUrl)
           THEN [by |-> "loadAsset", available |-> TRUE, network |-> FALSE]
           ELSE [by |-> "loadAsset", available |-> requestOk, network |-> TRUE]
    /\ UNCHANGED <<candUrl, candRest>>

\* loadModelFallback: the body of the loop for the candidate
CandLoadModelFallback(downloadOk) ==
    /\ component = "cand" /\ candReport.by = "none"
    /\ candUrl \in FallbackUrls
    /\ candReport' =
           IF UalIsLocal(candUrl)
           THEN [by |-> "loadModelFallback", available |-> TRUE, network |-> FALSE]
           ELSE [by |-> "loadModelFallback", available |-> downloadOk, network |-> TRUE]
    /\ UNCHANGED <<candUrl, candRest>>

CandQuiet ==
    /\ candUrl = <<".", "/", "models/">>
    /\ candReport = NoReport

CandInit ==
    /\ candUrl \in CandidateUrls
    /\ candReport = NoReport

CandNext ==
    \/ \E ok \in BOOLEAN : CandVerifyAssetAvailability(ok)
    \/ \E ok \in BOOLEAN : CandLoadAsset(ok)
    \/ \E ok \in BOOLEAN : CandLoadModelFallback(ok)

(***************************************************************************)
(* InferenceEngine.processingCanvasCache: the canvases kept per target     *)
(* resolution.  A JavaScript Map iterates in insertion order, so the cache *)
(* is the sequence of its keys, oldest first.                              *)
(***************************************************************************)
maxCacheSize == 5
MaxResolution == 6
\* the key `${targetWidth}x${targetHeight}`: the two numbers around a
\* separator that is no digit
CanvasKey(targetWidth, targetHeight) == <<targetWidth, "x", targetHeight>>
\* the model resolutions are square: [r, r]
CanvasKeys == {CanvasKey(r, r) : r \in 1..MaxResolution}
NoCanvasCall == [key |-> <<>>, before |-> <<>>, evicted |-> <<>>, created |-> FALSE]

CacheHas(cache, key) == \E i \in 1..Len(cache) : cache[i] = key
CacheDelete(cache, key) == SelectSeq(cache, LAMBDA k : k # key)

\* processingCanvasCache.keys().next().value
OldestKey_Newest(cache) == cache[Len(cache)]
OldestKey(cache) == Head(cache)

canvasRest == <<depVars, ualVars, mmVars, urlVars, swVars, swmVars, amcVars, sizeVars,
                avVars, candVars, dlVars, orchVars, progVars, ebVars, appVars, pageOrigin, component>>

getCachedCanvas(targetWidth, targetHeight) ==
    LET key == CanvasKey(targetWidth, targetHeight)
        full == Len(canvasCache) >= maxCacheSize
        oldestKey == OldestKey(canvasCache)
        kept == IF full THEN CacheDelete(canvasCache, oldestKey) ELSE canvasCache
    IN  /\ component = "canvas"
        /\ IF ~CacheHas(canvasCache, key)
             THEN /\ canvasCache' = Append(kept, key)
                  /\ canvasCall' = [key |-> key, before |-> canvasCache,
                                    evicted |-> IF full THEN oldestKey ELSE <<>>,
                                    created |-> TRUE]
             ELSE /\ canvasCache' = canvasCache
                  /\ canvasCall' = [key |-> key, before |-> canvasCache,
                                    evicted |-> <<>>, created |-> FALSE]
        /\ UNCHANGED canvasRest

\* InferenceEngine.cleanup
CanvasCleanup ==
    /\ component = "canvas"
    /\ canvasCache # <<>>
    /\ canvasCache' = <<>>
    /\ canvasCall' = NoCanvasCall
    /\ UNCHANGED canvasRest

CanvasQuiet == canvasCache = <<>> /\ canvasCall = NoCanvasCall
CanvasInit == CanvasQuiet

CanvasNext ==
    \/ \E r \in 1..MaxResolution : getCachedCanvas(r, r)
    \/ CanvasCleanup

(***************************************************************************)
(* UnifiedAssetLoader.downloadWithProgress, call after call: each call is  *)
(* one attempt at a download, with its own AbortController, its own timer  *)
(* and its own list of chunks.                                             *)
(***************************************************************************)
DOWNLOAD_TIMEOUT_MS == 30000
MaxDlNow == 60000
MaxAttempts == 2
MaxBody == 3
MaxChunk == 2
LargeLength == 250
DlSteps == {DOWNLOAD_TIMEOUT_MS \div 2}

\* The bodies a server sends: up to MaxBody bytes, no two bytes of a body
\* alike, so that a byte out of place shows.
BodyBytes == [i \in 1..MaxBody |-> 16 + i]
Bodies == {SubSeq(BodyBytes, 1, n) : n \in 0..MaxBody}

\* the timer of an attempt: setTimeout(() => controller.abort(), this.timeout)
Deadline_OfCall(attemptStart, firstStart) == firstStart + DOWNLOAD_TIMEOUT_MS
Deadline(attemptStart, firstStart) == attemptStart + DOWNLOAD_TIMEOUT_MS

\* clearTimeout(timeoutId)
ClearTimeout(timers, n) == {t \in timers : t.attempt # n}

\* view.set(chunk, position) for each chunk in turn, position advancing by
\* chunk.length
RECURSIVE WriteChunks(_, _, _, _)
WriteChunks(view, chunks, i, position) ==
    IF i > Len(chunks) THEN view
    ELSE WriteChunks([p \in DOMAIN view |->
                         IF p > position /\ p <= position + Len(chunks[i])
                         THEN chunks[i][p - position] ELSE view[p]],
                     chunks, i + 1, position + Len(chunks[i]))

\* the buffer returned after the loop: the slice that is the one chunk, or a
\* new buffer of receivedLength bytes filled chunk by chunk
Assemble_LastChunk(chunks, receivedLength) ==
    IF Len(chunks) = 0 THEN <<>> ELSE chunks[Len(chunks)]
Assemble(chunks, receivedLength) ==
    IF Len(chunks) = 1 THEN chunks[1]
    ELSE WriteChunks([p \in 1..receivedLength |-> 0], chunks, 1, 0)

\* what the caller gets when the call throws
Thrown_Partial(chunks, receivedLength) ==
    [returned |-> TRUE, result |-> Assemble(chunks, receivedLength)]
Thrown(chunks, receivedLength) == [returned |-> FALSE, result |-> <<>>]

\* progress - lastProgressReport >= 1, both as hundredths of contentLength
ReportDue(receivedLength, contentLength, lastReport) ==
    /\ contentLength > 0
    /\ Min2(PROGRESS_MAX * contentLength, PROGRESS_MAX * receivedLength) - lastReport
           >= contentLength

IdleAttempt ==
    [n |-> 0, startedAt |-> 0, firstStart |-> 0, settledAt |-> 0, stage |-> "idle",
     chunks |-> <<>>, receivedLength |-> 0, contentLength |-> 0, lastReport |-> 0,
     reports |-> 0, error |-> "none", returned |-> FALSE, result |-> <<>>]

dlRest == <<depVars, ualVars, mmVars, urlVars, swVars, swmVars, amcVars, sizeVars, avVars,
           candVars, canvasVars, orchVars, progVars, ebVars, appVars, pageOrigin, component>>

\* downloadWithProgress is called: the controller, the timer, fetch
DlStart(body) ==
    /\ component = "dl"
    /\ dlAttempt.stage \in {"idle", "rejected"}
    /\ dlAttempt.n < MaxAttempts
    /\ LET first == IF dlAttempt.n = 0 THEN dlNow ELSE dlAttempt.firstStart
       IN  /\ dlAttempt' = [IdleAttempt EXCEPT !.n = dlAttempt.n + 1, !.startedAt = dlNow,
                                               !.firstStart = first, !.stage = "fetch"]
           /\ dlTimers' = dlTimers \cup {[attempt |-> dlAttempt.n + 1,
                                          firesAt |-> Deadline(dlNow, first)]}
    /\ dlBody' = body
    /\ dlSent' = body
    /\ UNCHANGED <<dlNow, dlRest>>

\* the attempt ends in the catch block
DlThrow(error) ==
    /\ dlAttempt' = [dlAttempt EXCEPT
                        !.stage = "rejected", !.error = error, !.settledAt = dlNow,
                        !.returned = Thrown(dlAttempt.chunks, dlAttempt.receivedLength).returned,
                        !.result = Thrown(dlAttempt.chunks, dlAttempt.receivedLength).result]
    /\ dlTimers' = ClearTimeout(dlTimers, dlAttempt.n)

\* fetch settles: a rejection, a status that is not OK, a body without a
\* reader, or a body to read
DlResponse(outcome, contentLength) ==
    /\ component = "dl"
    /\ dlAttempt.stage = "fetch"
    /\ CASE outcome = "failed" -> DlThrow("network")
         [] outcome = "notok" -> DlThrow("http")
         [] outcome = "noreader" ->
                /\ dlAttempt' = [dlAttempt EXCEPT !.stage = "buffer",
                                                  !.contentLength = contentLength]
                /\ UNCHANGED dlTimers
         [] OTHER ->
                /\ dlAttempt' = [dlAttempt EXCEPT !.stage = "read",
                                                  !.contentLength = contentLength]
                /\ UNCHANGED dlTimers
    /\ UNCHANGED <<dlNow, dlBody, dlSent, dlRest>>

\* response.arrayBuffer() settles
DlArrayBuffer(ok) ==
    /\ component = "dl"
    /\ dlAttempt.stage = "buffer"
    /\ IF ok
       THEN /\ dlAttempt' = [dlAttempt EXCEPT
                                !.stage = "resolved", !.settledAt = dlNow,
                                !.receivedLength = Len(dlBody), !.reports = @ + 1,
                                !.returned = TRUE, !.result = dlBody]
            /\ dlTimers' = ClearTimeout(dlTimers, dlAttempt.n)
            /\ dlBody' = <<>>
       ELSE /\ DlThrow("network")
            /\ UNCHANGED dlBody
    /\ UNCHANGED <<dlNow, dlSent, dlRest>>

\* reader.read() delivers the next k bytes
DlRead(k) ==
    /\ component = "dl"
    /\ dlAttempt.stage = "read"
    /\ k <= Len(dlBody)
    /\ LET value == SubSeq(dlBody, 1, k)
           receivedLength == dlAttempt.receivedLength + Len(value)
           due == ReportDue(receivedLength, dlAttempt.contentLength, dlAttempt.lastReport)
       IN  dlAttempt' = [dlAttempt EXCEPT
                            !.chunks = Append(@, value),
                            !.receivedLength = receivedLength,
                            !.reports = IF due THEN @ + 1 ELSE @,
                            !.lastReport =
                                IF due THEN Min2(PROGRESS_MAX * dlAttempt.contentLength,
                                                 PROGRESS_MAX * receivedLength)
                                ELSE @]
    /\ dlBody' = SubSeq(dlBody, k + 1, Len(dlBody))
    /\ UNCHANGED <<dlNow, dlTimers, dlSent, dlRest>>

\* reader.read() reports done
DlDone ==
    /\ component = "dl"
    /\ dlAttempt.stage = "read"
    /\ dlBody = <<>>
    /\ dlAttempt' = [dlAttempt EXCEPT
                        !.stage = "resolved", !.settledAt = dlNow, !.returned = TRUE,
                        !.result = Assemble(dlAttempt.chunks, dlAttempt.receivedLength)]
    /\ dlTimers' = ClearTimeout(dlTimers, dlAttempt.n)
    /\ UNCHANGED <<dlNow, dlBody, dlSent, dlRest>>

\* reader.read() rejects: the connection broke
DlStreamError ==
    /\ component = "dl"
    /\ dlAttempt.stage = "read"
    /\ DlThrow("network")
    /\ UNCHANGED <<dlNow, dlBody, dlSent, dlRest>>

\* a timer fires: controller.abort() on the controller of its own call; the
\* pending fetch or read of that call rejects with AbortError
DlTimerFires ==
    /\ component = "dl"
    /\ \E t \in dlTimers :
          /\ t.firesAt <= dlNow
          /\ IF t.attempt = dlAttempt.n /\ dlAttempt.stage \in {"fetch", "buffer", "read"}
             THEN DlThrow("timeout")
             ELSE /\ dlTimers' = dlTimers \ {t}
                  /\ UNCHANGED dlAttempt
    /\ UNCHANGED <<dlNow, dlBody, dlSent, dlRest>>

\* time passes
DlTick(d) ==
    /\ component = "dl"
    /\ dlNow + d <= MaxDlNow
    /\ dlNow' = dlNow + d
    /\ UNCHANGED <<dlAttempt, dlTimers, dlBody, dlSent, dlRest>>

DlQuiet ==
    /\ dlNow = 0 /\ dlAttempt = IdleAttempt /\ dlTimers = {}
    /\ dlBody = <<>> /\ dlSent = <<>>
DlInit == DlQuiet

DlNext ==
    \/ \E body \in Bodies : DlStart(body)
    \/ \E outcome \in {"failed", "notok", "noreader", "ok"},
          contentLength \in {0, Len(dlSent), LargeLength} : DlResponse(outcome, contentLength)
    \/ \E ok \in BOOLEAN : DlArrayBuffer(ok)
    \/ \E k \in 1..MaxChunk : DlRead(k)
    \/ DlDone
    \/ DlStreamError
    \/ DlTimerFires
    \/ \E d \in DlSteps : DlTick(d)

(***************************************************************************)
(* UnifiedAssetLoader.loadModel from the first request to the value it     *)
(* returns, with the models cache of the service worker that sees the      *)
(* requests of the page.  A load runs as one step.                         *)
(***************************************************************************)
MaxLoads == 2
\* this.assets.models.cdnBaseUrl and localBaseUrl, each followed by filename
ModelCdnUrl == <<"h", "t", "tps://example-cdn.com/models/">>
ModelLocalUrl == <<".", "/", "models/">>

\* the fetch handler of the worker: url.origin !== self.location.origin is
\* left to the browser; './models/...' resolves against the page
SwHandles(url) == ~StartsWith(url, <<"h", "t">>)

\* A request of the page as the worker answers it: where the response came
\* from, and the models cache afterwards.
FetchEvent(url, cache, networkOk) ==
    IF SwHandles(url) /\ url \in cache
    THEN [from |-> "cache", ok |-> TRUE, cache |-> cache]
    ELSE IF SwHandles(url) /\ networkOk
    THEN [from |-> "network", ok |-> TRUE, cache |-> cache \cup {url}]
    ELSE [from |-> "network", ok |-> networkOk, cache |-> cache]

NoModelLoad == [n |-> 0, source |-> "none", hit |-> FALSE, afterDownload |-> FALSE]

orchRest == <<depVars, ualVars, mmVars, urlVars, swVars, swmVars, amcVars, sizeVars, avVars,
             candVars, canvasVars, dlVars, progVars, ebVars, appVars, pageOrigin, component>>

\* loadModelFallback: the CDN URL is downloaded, the local URL is returned as
\* it is
loadModelFallback(n, cache, cdnOk) ==
    LET download == FetchEvent(ModelCdnUrl, cache, cdnOk)
    IN  IF ~UalIsLocal(ModelCdnUrl) /\ download.ok
        THEN [load |-> [n |-> n, source |-> "cdn", hit |-> download.from = "cache",
                        afterDownload |-> orchDownloaded],
              cache |-> download.cache]
        ELSE IF UalIsLocal(ModelLocalUrl)
        THEN [load |-> [n |-> n, source |-> "local", hit |-> FALSE,
                        afterDownload |-> orchDownloaded],
              cache |-> download.cache]
        ELSE [load |-> [n |-> n, source |-> "failed", hit |-> FALSE,
                        afterDownload |-> orchDownloaded],
              cache |-> download.cache]

\* loadModel(filename, expectedSize)
OrchLoadModel(swEnabled, localOk, cdnOk) ==
    /\ component = "orch"
    /\ orchLoad.n < MaxLoads
    /\ LET n == orchLoad.n + 1
           response == FetchEvent(ModelLocalUrl, orchCache, localOk)
           fallback == loadModelFallback(n, IF swEnabled THEN response.cache ELSE orchCache,
                                         cdnOk)
       IN  IF swEnabled /\ response.ok
           THEN /\ orchLoad' = [n |-> n, source |-> "sw", hit |-> response.from = "cache",
                                afterDownload |-> orchDownloaded]
                /\ orchCache' = response.cache
                /\ UNCHANGED orchDownloaded
           ELSE /\ orchLoad' = fallback.load
                /\ orchCache' = fallback.cache
                /\ orchDownloaded' = (orchDownloaded \/ fallback.load.source = "cdn")
    /\ UNCHANGED orchRest

OrchQuiet == orchCache = {} /\ orchLoad = NoModelLoad /\ orchDownloaded = FALSE
OrchInit == OrchQuiet

OrchNext == \E swEnabled, localOk, cdnOk \in BOOLEAN : OrchLoadModel(swEnabled, localOk, cdnOk)

(***************************************************************************)
(* updateProgress as a function of localProgress and stage.  JavaScript    *)
(* divides exactly, so the values are kept in hundredths of a percent.     *)
(***************************************************************************)
MaxLocal == 110
ProgressStages == {"onnx", "model", "other"}
NoOutput == [called |-> FALSE, step100 |-> 0]

\* Math.min(PROGRESS_MAX, totalProgress), in hundredths
NewStep100(total100) == Min2(PROGRESS_MAX * PROGRESS_MAX, total100)

progRest == <<depVars, ualVars, mmVars, urlVars, swVars, swmVars, amcVars, sizeVars, avVars, candVars, canvasVars, dlVars, orchVars,
    ebVars, appVars, pageOrigin, component>>

\* updateProgress(localProgress, stage, message), no throttle in the way
ProgUpdate ==
    /\ component = "prog"
    /\ ~progOutput.called
    /\ progOutput' = [called |-> TRUE,
                      step100 |-> NewStep100(TotalProgress100(progInput.localProgress,
                                                              progInput.stage))]
    /\ UNCHANGED <<progInput, progRest>>

ProgQuiet == progInput = [localProgress |-> 0, stage |-> "onnx"] /\ progOutput = NoOutput
ProgInit ==
    /\ progInput \in [localProgress : 0..MaxLocal, stage : ProgressStages]
    /\ progOutput = NoOutput

ProgNext == ProgUpdate

(***************************************************************************)
(* ErrorBoundary: the counters, the wrapper around a function, and the     *)
(* recoveries it starts.  A recovery first awaits its delay, then calls    *)
(* the recovery callback and awaits it against a timeout; when the timeout *)
(* wins, the callback is still running ("left").                           *)
(***************************************************************************)
MAX_CONSECUTIVE_ERRORS == 5
MaxErrors == 7
MaxRecoveries == 2

NoRecoveries == [delay |-> 0, callback |-> 0, left |-> 0]
NoEbCall == [executed |-> FALSE, failsafeBefore |-> FALSE, threw |-> FALSE,
             failsafe |-> FALSE, recovery |-> FALSE]

\* consecutiveErrors >= CONSTANTS.MAX_CONSECUTIVE_ERRORS
Failsafe(n) == n >= MAX_CONSECUTIVE_ERRORS

ebRest == <<depVars, ualVars, mmVars, urlVars, swVars, swmVars, amcVars, sizeVars, avVars, candVars, canvasVars, dlVars, orchVars, progVars,
    appVars, pageOrigin, component>>

\* The function returned by wrap(fn) is called: fn runs; when it returns,
\* onSuccess; when it throws, handleError, which may enter failsafe mode or
\* start attemptRecovery.
EbWrappedCall(throws) ==
    /\ component = "eb"
    /\ errorCount < MaxErrors /\ consecutiveErrors < MaxErrors
    /\ IF ~throws
       THEN /\ consecutiveErrors' = 0
            /\ ebLast' = [NoEbCall EXCEPT !.executed = TRUE,
                                          !.failsafeBefore = Failsafe(consecutiveErrors)]
            /\ UNCHANGED <<errorCount, isRecovering, ebRecoveries>>
       ELSE LET n == consecutiveErrors + 1
                recover == ~Failsafe(n) /\ recoveryCallback /\ ~isRecovering
                           /\ ebRecoveries.delay + ebRecoveries.callback
                                + ebRecoveries.left < MaxRecoveries
            IN  /\ ~Failsafe(n) /\ recoveryCallback /\ ~isRecovering => recover
                /\ errorCount' = errorCount + 1
                /\ consecutiveErrors' = n
                /\ isRecovering' = (isRecovering \/ recover)
                /\ ebRecoveries' = IF recover THEN [ebRecoveries EXCEPT !.delay = @ + 1]
                                   ELSE ebRecoveries
                /\ ebLast' = [executed |-> TRUE,
                              failsafeBefore |-> Failsafe(consecutiveErrors),
                              threw |-> TRUE, failsafe |-> Failsafe(n),
                              recovery |-> recover]
    /\ UNCHANGED <<recoveryCallback, ebRest>>

\* attemptRecovery: the delay is over, the recovery callback is called
EbRecoveryCallback ==
    /\ component = "eb"
    /\ ebRecoveries.delay > 0
    /\ ebRecoveries' = [ebRecoveries EXCEPT !.delay = @ - 1, !.callback = @ + 1]
    /\ UNCHANGED <<recoveryCallback, errorCount, consecutiveErrors, isRecovering, ebLast,
                   ebRest>>

\* attemptRecovery: the race settles with the callback (fulfilled or rejected)
\* or with the timeout; then finally
EbRecoverySettles(how) ==
    /\ component = "eb"
    /\ ebRecoveries.callback > 0
    /\ how # "fulfilled" => consecutiveErrors < MaxErrors
    /\ consecutiveErrors' = IF how = "fulfilled" THEN 0 ELSE consecutiveErrors + 1
    /\ isRecovering' = FALSE
    /\ ebRecoveries' = IF how = "timeout"
                       THEN [ebRecoveries EXCEPT !.callback = @ - 1, !.left = @ + 1]
                       ELSE [ebRecoveries EXCEPT !.callback = @ - 1]
    /\ UNCHANGED <<recoveryCallback, errorCount, ebLast, ebRest>>

\* a callback that lost the race comes to its end
EbLeftCallbackEnds ==
    /\ component = "eb"
    /\ ebRecoveries.left > 0
    /\ ebRecoveries' = [ebRecoveries EXCEPT !.left = @ - 1]
    /\ UNCHANGED <<recoveryCallback, errorCount, consecutiveErrors, isRecovering, ebLast,
                   ebRest>>

\* reset()
EbReset ==
    /\ component = "eb"
    /\ errorCount' = 0
    /\ consecutiveErrors' = 0
    /\ isRecovering' = FALSE
    /\ ebLast' = NoEbCall
    /\ UNCHANGED <<recoveryCallback, ebRecoveries, ebRest>>

EbQuiet ==
    /\ recoveryCallback = FALSE /\ errorCount = 0 /\ consecutiveErrors = 0
    /\ isRecovering = FALSE /\ ebRecoveries = NoRecoveries /\ ebLast = NoEbCall
EbInit ==
    /\ recoveryCallback \in BOOLEAN
    /\ errorCount = 0 /\ consecutiveErrors = 0 /\ isRecovering = FALSE
    /\ ebRecoveries = NoRecoveries /\ ebLast = NoEbCall

EbNext ==
    \/ \E throws \in BOOLEAN : EbWrappedCall(throws)
    \/ EbRecoveryCallback
    \/ \E how \in {"fulfilled", "rejected", "timeout"} : EbRecoverySettles(how)
    \/ EbLeftCallbackEnds
    \/ EbReset

(***************************************************************************)
(* ObjectDetectionApp (main.js): initialize() and the live-detection loop. *)
(* A chain of runLiveDetectionLoop is the call made by startLiveDetection  *)
(* and the calls that follow it through requestAnimationFrame; it either   *)
(* awaits runSingleDetection or has a frame callback scheduled.  The frame *)
(* request of chain c has the id c.                                        *)
(***************************************************************************)
MaxChains == 3
LoopChains == 1..MaxChains
InitAwaits == <<"onnx", "camera", "model", "session">>

ActiveLoops == {c \in LoopChains : liveLoops[c] # "none"}
ScheduledLoops == {c \in LoopChains : liveLoops[c] = "scheduled"}

\* cancelAnimationFrame(id): a callback that is still scheduled is dropped
CancelAnimationFrame(loops, id) ==
    [c \in LoopChains |-> IF c = id /\ loops[c] = "scheduled" THEN "none" ELSE loops[c]]

appRest == <<depVars, ualVars, mmVars, urlVars, swVars, swmVars, amcVars, sizeVars, avVars, candVars, canvasVars, dlVars, orchVars, progVars, ebVars,
    pageOrigin, component>>

\* initialize() up to its first await
AppInitialize ==
    /\ component = "app"
    /\ appPc = "new"
    /\ isLoading' = TRUE
    /\ appPc' = InitAwaits[1]
    /\ UNCHANGED <<cameraReady, appListeners, isLiveDetection, animationId, liveLoops, appRest>>

\* the promise initialize() awaits settles: on fulfilment the next step, and
\* after the last one setupEventListeners() and the end of loading; on
\* rejection the catch block (console.error, showError)
AppInitSettles(ok) ==
    /\ component = "app"
    /\ \E i \in 1..Len(InitAwaits) :
          /\ appPc = InitAwaits[i]
          /\ IF ~ok
             THEN /\ appPc' = "failed"
                  /\ UNCHANGED <<isLoading, cameraReady, appListeners>>
             ELSE /\ cameraReady' = (cameraReady \/ appPc = "camera")
                  /\ IF i < Len(InitAwaits)
                     THEN /\ appPc' = InitAwaits[i + 1]
                          /\ UNCHANGED <<isLoading, appListeners>>
                     ELSE /\ appPc' = "ready"
                          /\ appListeners' = TRUE
                          /\ isLoading' = FALSE
    /\ UNCHANGED <<isLiveDetection, animationId, liveLoops, appRest>>

\* startLiveDetection(): the guard, the flag, and runLiveDetectionLoop() up to
\* `await this.runSingleDetection()`
startLiveDetection ==
    IF ~cameraReady \/ isLiveDetection \/ isLoading
    THEN UNCHANGED <<isLiveDetection, animationId, liveLoops>>
    ELSE /\ LoopChains \ ActiveLoops # {}
         /\ isLiveDetection' = TRUE
         /\ liveLoops' = [liveLoops EXCEPT ![Min(LoopChains \ ActiveLoops)] = "detecting"]
         /\ UNCHANGED animationId

\* stopLiveDetection()
stopLiveDetection ==
    /\ isLiveDetection' = FALSE
    /\ animationId' = 0
    /\ liveLoops' = IF animationId # 0 THEN CancelAnimationFrame(liveLoops, animationId)
                    ELSE liveLoops

\* a click on the live button: toggleLiveDetection()
toggleLiveDetection ==
    /\ component = "app"
    /\ appListeners
    /\ IF isLiveDetection THEN stopLiveDetection ELSE startLiveDetection
    /\ UNCHANGED <<appPc, isLoading, cameraReady, appListeners, appRest>>

\* the reset button, switchCamera() or a hidden tab: stopLiveDetection()
AppStop ==
    /\ component = "app"
    /\ appListeners
    /\ stopLiveDetection
    /\ UNCHANGED <<appPc, isLoading, cameraReady, appListeners, appRest>>

\* runLiveDetectionLoop() after `await this.runSingleDetection()` (fulfilled
\* or caught): the next frame is requested when the flag is set
AppDetectionSettles(c) ==
    /\ component = "app"
    /\ liveLoops[c] = "detecting"
    /\ IF isLiveDetection
       THEN /\ liveLoops' = [liveLoops EXCEPT ![c] = "scheduled"]
            /\ animationId' = c
       ELSE /\ liveLoops' = [liveLoops EXCEPT ![c] = "none"]
            /\ UNCHANGED animationId
    /\ UNCHANGED <<appPc, isLoading, cameraReady, appListeners, isLiveDetection, appRest>>

\* the frame callback of chain c runs: runLiveDetectionLoop() up to its await
AppFrame(c) ==
    /\ component = "app"
    /\ liveLoops[c] = "scheduled"
    /\ liveLoops' = [liveLoops EXCEPT ![c] = IF isLiveDetection THEN "detecting" ELSE "none"]
    /\ UNCHANGED <<appPc, isLoading, cameraReady, appListeners, isLiveDetection,
                   animationId, appRest>>

AppQuiet ==
    /\ appPc = "new"
    /\ isLoading = FALSE
    /\ cameraReady = FALSE
    /\ appListeners = FALSE
    /\ isLiveDetection = FALSE
    /\ animationId = 0
    /\ liveLoops = [c \in LoopChains |-> "none"]

\* the constructor of ObjectDetectionApp
AppInit == AppQuiet

AppNext ==
    \/ AppInitialize
    \/ \E ok \in BOOLEAN : AppInitSettles(ok)
    \/ toggleLiveDetection
    \/ AppStop
    \/ \E c \in LoopChains : AppDetectionSettles(c)
    \/ \E c \in LoopChains : AppFrame(c)

-----------------------------------------------------------------------------
vars == <<component, pageOrigin, urlVars, depVars, ualVars, mmVars, otherVars>>

UrlQuiet == urlInput = <<>> /\ urlVerdict = "none"
DepQuiet ==
    /\ depVersion = "base" /\ scriptsInDom = {} /\ loadedDependencies = {}
    /\ loadingPromises = [k \in {depKey} |-> 0]
    /\ loads = [L \in Slots |-> FreeLoad]
    /\ callers = [c \in Callers |-> IdleCaller]
    /\ microtasks = <<>>

Init ==
    /\ pageOrigin \in PageOrigins
    /\ \/ /\ component = "dep" /\ DepInit /\ UrlQuiet /\ UalQuiet /\ MmInit
          /\ depVersion = "base" => pageOrigin = NullOrigin   \* base reads no origin
       \/ /\ component = "url" /\ UrlInit /\ DepInit /\ depVersion = "hardened" /\ UalQuiet
          /\ MmInit
       \/ /\ component = "ual" /\ UalInit /\ UrlQuiet /\ DepQuiet /\ MmInit
          /\ pageOrigin = NullOrigin /\ ort \in {"undefined", "ok"}
       \/ /\ component = "mm" /\ MmInit /\ UrlQuiet /\ DepQuiet /\ UalQuiet
          /\ pageOrigin = NullOrigin /\ ort = "ok"
       \/ /\ component = "sw" /\ MmInit /\ UrlQuiet /\ DepQuiet /\ UalQuiet
          /\ pageOrigin = NullOrigin /\ ort = "undefined"
       \/ /\ component = "swm" /\ MmInit /\ UrlQuiet /\ DepQuiet /\ UalQuiet
          /\ pageOrigin = NullOrigin /\ ort = "undefined"
       \/ /\ component = "amc" /\ MmInit /\ UrlQuiet /\ DepQuiet /\ UalQuiet
          /\ pageOrigin = NullOrigin /\ ort = "undefined"
       \/ /\ component = "size" /\ MmInit /\ UrlQuiet /\ DepQuiet /\ UalQuiet
          /\ pageOrigin = NullOrigin /\ ort = "undefined"
       \/ /\ component = "avail" /\ MmInit /\ UrlQuiet /\ DepQuiet /\ UalQuiet
          /\ pageOrigin = NullOrigin /\ ort = "undefined"
       \/ /\ component = "cand" /\ MmInit /\ UrlQuiet /\ DepQuiet /\ UalQuiet
          /\ pageOrigin = NullOrigin /\ ort = "undefined"
       \/ /\ component = "canvas" /\ MmInit /\ UrlQuiet /\ DepQuiet /\ UalQuiet
          /\ pageOrigin = NullOrigin /\ ort = "undefined"
       \/ /\ component = "dl" /\ MmInit /\ UrlQuiet /\ DepQuiet /\ UalQuiet
          /\ pageOrigin = NullOrigin /\ ort = "undefined"
       \/ /\ component = "orch" /\ MmInit /\ UrlQuiet /\ DepQuiet /\ UalQuiet
          /\ pageOrigin = NullOrigin /\ ort = "undefined"
       \/ /\ component = "prog" /\ MmInit /\ UrlQuiet /\ DepQuiet /\ UalQuiet
          /\ pageOrigin = NullOrigin /\ ort = "undefined"
       \/ /\ component = "eb" /\ MmInit /\ UrlQuiet /\ DepQuiet /\ UalQuiet
          /\ pageOrigin = NullOrigin /\ ort = "undefined"
       \/ /\ component = "app" /\ MmInit /\ UrlQuiet /\ DepQuiet /\ UalQuiet
          /\ pageOrigin = NullOrigin /\ ort = "undefined"
    /\ SwInit
    /\ SwmInit
    /\ AmcInit
    /\ AvInit
    /\ IF component = "cand" THEN CandInit ELSE CandQuiet
    /\ IF component = "canvas" THEN CanvasInit ELSE CanvasQuiet
    /\ IF component = "dl" THEN DlInit ELSE DlQuiet
    /\ IF component = "orch" THEN OrchInit ELSE OrchQuiet
    /\ IF component = "size" THEN SizeInit ELSE SizeQuiet
    /\ IF component = "app" THEN AppInit ELSE AppQuiet
    /\ IF component = "eb" THEN EbInit ELSE EbQuiet
    /\ IF component = "prog" THEN ProgInit ELSE ProgQuiet

Next ==
    \/ DepNext
    \/ Validate
    \/ UalNext
    \/ MmNext
    \/ SwNext
    \/ SwmNext
    \/ AmcNext
    \/ SizeNext
    \/ AvNext
    \/ CandNext
    \/ CanvasNext
    \/ DlNext
    \/ OrchNext
    \/ ProgNext
    \/ EbNext
    \/ AppNext

Spec == Init /\ [][Next]_vars

\* The event loops of the page and of the worker run every task that is
\* ready: the worker handles a message it was sent, a port delivers a message
\* posted to it, and a call goes on after the promise it awaits has settled.
\* Nothing obliges the application to make further calls.
SwmFairness ==
    /\ WF_vars(\E m \in swInbox : \E outcome \in WorkerOutcomes(m.type) : SwMessage(m, outcome))
    /\ WF_vars(\E ch \in Channels : PortMessage(ch))
    /\ WF_vars(\E c \in CallSlots : SwmContinue(c))
FairSpec == Spec /\ SwmFairness

-----------------------------------------------------------------------------
(***************************************************************************)
(* Properties                                                              *)
(***************************************************************************)

\* C1: starting from a state where the key is neither loading nor loaded, all the
\* calls made before the first one settles share one internal load: every such
\* caller holds the promise of that load, exactly one of them started it, none
\* started another, and each settles with the outcome of that load.
C1_SingleFlight ==
    component = "dep" =>
        \A c \in Callers :
            LET b == callers[c].batch IN
            b # 0 =>
                /\ callers[c].ticket = b
                /\ callers[c].started \in {0, b}
                /\ Cardinality({d \in Callers : callers[d].started = b}) = 1
                /\ callers[c].pc \in {"owner", "joined", "done"}
                /\ callers[c].pc = "done" => callers[c].result = ResultOf(loads[b])
                /\ callers[c].pc # "done" => Pending(b)

\* Two callers of one batch have settled, one of them having started the load.
C1_Witness ==
    /\ component = "dep"
    /\ \E c, d \in Callers :
          /\ c # d
          /\ callers[c].pc = "done" /\ callers[d].pc = "done"
          /\ callers[c].batch # 0 /\ callers[d].batch = callers[c].batch
          /\ callers[c].started = callers[c].batch /\ callers[d].started = 0
          /\ callers[c].result = callers[d].result

\* C2: loadingPromises holds an entry only for a load that is in flight, so no
\* entry remains once no load is in flight, no caller waits on a settled promise,
\* and a call after a failed load finds no entry and starts a load of its own.
C2_TicketRemovedOnSettle ==
    component = "dep" =>
        /\ loadingPromises[depKey] # 0 => Pending(loadingPromises[depKey])
        /\ PendingLoads = {} => loadingPromises[depKey] = 0
        /\ \A c \in Callers :
              /\ callers[c].pc \in {"owner", "joined"} => Pending(callers[c].ticket)
              /\ callers[c].retry /\ callers[c].pc = "owner" =>
                     callers[c].started = callers[c].ticket

\* A caller whose previous call was rejected has called again and waits on a load
\* of its own, which is the one loadingPromises now holds.
C2_Witness ==
    /\ component = "dep"
    /\ \E c \in Callers :
          /\ callers[c].retry
          /\ callers[c].pc = "owner"
          /\ Pending(callers[c].started)
          /\ loadingPromises[depKey] = callers[c].started

\* C3: each source loop attempts its candidates in the configured order, the
\* next one only after the one before was attempted and failed, and none after a
\* success: the k-th attempt of a loop is candidate k, every attempt but the last
\* has failed, and a loop that has succeeded or is waiting stands at its last
\* attempt.
C3_SourcesInOrder ==
    /\ component = "dep" =>
           \A L \in Slots :
               loads[L].st # "free" =>
                   /\ \A k \in 1..Len(loads[L].tried) : loads[L].tried[k].idx = k
                   /\ Len(loads[L].tried) <= Len(strategies)
                   /\ loads[L].st \in {"wait", "ok"} => loads[L].idx = Len(loads[L].tried)
                   /\ loads[L].st = "err" => Len(loads[L].tried) = Len(strategies)
    /\ component = "ual" =>
           /\ \A k \in 1..Len(ualTried) : ualTried[k] = k
           /\ Len(ualTried) <= Len(ualUrls)
           /\ ualPc \in {"onnx_cdn", "model_cdn"} => ualTried = <<1>>
           /\ ualResult.source = "CDN" => ualTried = <<1>>
           /\ ualResult.source = "Local" \/ ualResult.kind = "err" => ualTried = <<1, 2>>
    /\ component = "mm" =>
           /\ \A k \in 1..Len(amTried) :
                  /\ amTried[k].i = k
                  /\ k < Len(amTried) => amTried[k].outcome = "fail"
           /\ Len(amTried) <= Len(getAssetUrls(amKey[1]))
           /\ mmPc = "asset" => amTried[Len(amTried)].outcome = "pending"

\* The third strategy of the dependency loader has succeeded after the first two
\* were attempted.
C3_Witness ==
    /\ component = "dep"
    /\ \E L \in Slots :
          /\ loads[L].st = "ok" /\ loads[L].idx = Len(strategies)
          /\ Len(loads[L].tried) = Len(strategies)

\* C4: the values handed to the progress callback over one load session never
\* decrease and lie in [0,100].
C4_DeliveredNonDecreasing ==
    component = "ual" =>
        /\ \A i \in 1..Len(progress.delivered) :
               progress.delivered[i] >= 0 /\ progress.delivered[i] <= PROGRESS_MAX
        /\ \A i \in 1..(Len(progress.delivered) - 1) :
               progress.delivered[i] <= progress.delivered[i + 1]

\* C5: an updateProgress(100, ...) call always reaches the progress callback.
C5_FinalUpdateDelivered ==
    (component = "ual" /\ progress.callback /\ progress.lastCall.local = PROGRESS_MAX)
        => progress.lastCall.delivered

C7_SubstitutionOnEveryExhaustedCall ==
    (component = "mm" /\ mmPc = "done" /\ mmCall.via # "loadAsset"
        /\ mmCall.caught >= 1 /\ mmCall.startIndex # findSmallestAvailableModel)
        => Len(mmCall.substituted) = 1

\* C8: a caller sees an error only when every candidate was attempted, and then
\* the aggregate error of the loop, not the error of a candidate.
C8_OnlyAggregateError ==
    /\ component = "dep" =>
           \A c \in Callers :
               (callers[c].pc = "done" /\ callers[c].result.kind = "err") =>
                   /\ callers[c].result.error = AllSourcesError
                   /\ Len(loads[callers[c].ticket].tried) = Len(strategies)
    /\ component = "ual" =>
           (ualResult.kind = "err" =>
               /\ ualResult.error \in {UalOnnxError, UalModelError}
               /\ Len(ualTried) = Len(ualUrls))
    /\ component = "mm" =>
           ((mmCall.via = "loadAsset" /\ mmResult.kind = "err") =>
               /\ mmResult.error = AmAllSourcesError
               /\ Len(amTried) = Len(getAssetUrls(amKey[1]))
               /\ \A k \in 1..Len(amTried) : amTried[k].outcome = "fail")

\* A caller of the dependency loader was rejected with the aggregate error.
C8_Witness ==
    /\ component = "dep"
    /\ \E c \in Callers :
          /\ callers[c].pc = "done"
          /\ callers[c].result.kind = "err"
          /\ callers[c].result.error = AllSourcesError

\* C9: the load-attempt log keeps one entry for every candidate the call has
\* attempted and decided.
C9_LogKeepsEveryAttempt ==
    component = "mm" =>
        Cardinality({k \in 1..Len(amTried) : amTried[k].outcome # "pending"})
            <= (IF loadAttempts[amKey].state = "none" THEN 0 ELSE 1)

\* What a URL string is, read off its text: whether it parses against the page's
\* origin, its scheme, whether it is of the page's origin, whether its text holds
\* "../" or "..\".
UrlIsAbsolute(url) == url # <<>> /\ url[1] \in SchemeAtoms
UrlParses(url, origin) ==
    IF UrlIsAbsolute(url)
    THEN Len(url) >= 2 /\ url[2] \in HostAtoms /\ (url[1] = "//" => origin # NullOrigin)
    ELSE origin # NullOrigin
UrlScheme(url, origin) ==
    IF UrlIsAbsolute(url) /\ url[1] # "//"
    THEN (IF url[1] = "https://" THEN "https:" ELSE "http:")
    ELSE origin.scheme
UrlSameOrigin(url, origin) ==
    UrlIsAbsolute(url) =>
        /\ UrlScheme(url, origin) = origin.scheme
        /\ url[2] = origin.host
        /\ (IF Len(url) >= 3 /\ url[3] \in PortAtoms THEN url[3] ELSE "") = origin.port
UrlHasTraversal(url) ==
    \E i \in 1..(Len(url) - 2) :
        url[i] = "." /\ url[i + 1] = "." /\ url[i + 2] \in SlashAtoms

C12_HitOnlyFromActiveGeneration ==
    component = "sw" /\ swResponse.url \in MODEL_FILES /\ swResponse.from = "cache"
        => swResponse.storedBy = CACHE_VERSION

\* a URL cached under generation 1 is requested under generation 2 and fetched
\* from the network
C12_Witness ==
    /\ component = "sw" /\ CACHE_VERSION = 2
    /\ swResponse.url \in MODEL_FILES /\ swResponse.from = "network"
    /\ 1 \in modelsStoredBy[swResponse.url]

\* C13: once the activate handler of a generation has run, Cache Storage holds
\* no static-, models- or runtime- cache of another generation, and the reply
\* to GET_CACHE_STATUS counts the entries of the active generation only.
C13_SupersededCachesDeleted ==
    component = "sw"
        => /\ \A n \in CachesKeys(cacheStorage) : n.version = CACHE_VERSION
           /\ swStatus.cacheVersion # 0
                  => /\ swStatus.cacheVersion = CACHE_VERSION
                     /\ swStatus.staticAssets <= Cardinality(STATIC_ASSETS)
                     /\ swStatus.modelsCount <= Cardinality(MODEL_FILES)

\* C14: the promise a call of cacheModel, clearModelCache or updateCacheStats
\* awaits is settled only by the reply of the worker to the request of that
\* call: never by the reply to another request, never by a notification.
C14_SettledByOwnReply ==
    component = "swm"
        => \A c \in CallSlots :
              swmCalls[c].st \in {"resolved", "rejected"}
                  => /\ swmCalls[c].settledBy.kind = "reply"
                     /\ swmCalls[c].settledBy.replyTo = c
                     /\ swmCalls[c].settledBy.data =
                            (IF swmCalls[c].op = "updateCacheStats" THEN "status"
                             ELSE IF swmCalls[c].st = "rejected" THEN "failure"
                             ELSE "success")

\* two requests are outstanding, the worker answers the later one first, and
\* that call is settled while the earlier one and a notification are pending
C14_Witness ==
    /\ component = "swm"
    /\ swmCalls[2].st = "resolved" /\ swmCalls[2].op = "updateCacheStats"
    /\ swmCalls[1].st = "pending" /\ swmCalls[1].op = "cacheModel"
    /\ swmPush = "CACHE_UPDATED"

\* C15: in loadModel a failure of the service-worker path is a miss: it is not
\* the result of the call; the call goes on with loadModelFallback, whose
\* outcome is the outcome of the call.
C15_SwFailureIsMiss ==
    component = "ual"
        => /\ ualResult.kind = "err" => ualResult.error # UalSwError
           /\ ualPc = "model_failed"
                  => ualResult.error = UalModelError /\ Len(ualTried) = Len(ualUrls)
           /\ ualPc = "model_done" /\ ualResult.source # "ServiceWorker"
                  => ualTried # <<>> /\ ualResult.source = ualUrls[Len(ualTried)].source
           /\ ualPc = "model_cdn" => ualResult = NoResult

\* the service-worker path has failed and the fallback has delivered the model
C15_Witness ==
    /\ component = "ual" /\ isServiceWorkerEnabled
    /\ ualPc = "model_done" /\ ualResult.kind = "ok" /\ ualResult.source = "CDN"

\* C16: a call of the hardened loader that finds the loaded marker and a failing
\* health check removes the marker and starts one internal load, whose promise
\* it awaits; when that load fails the call is rejected with its error, every
\* source having been tried once.
C16_EvictThenOneLoad ==
    component = "dep" /\ depVersion = "hardened"
        => \A c \in Callers :
              /\ callers[c].evict # "kept"
              /\ callers[c].evict = "evicted"
                     => /\ callers[c].pc \in {"owner", "done"}
                        /\ callers[c].started # 0
                        /\ callers[c].ticket = callers[c].started
                        /\ callers[c].pc = "owner" => Pending(callers[c].started)
                        /\ callers[c].pc = "done"
                               => LET ld == loads[callers[c].started] IN
                                  /\ ld.st \in {"ok", "err"}
                                  /\ callers[c].result = ResultOf(ld)
                                  /\ ld.st = "err"
                                         => /\ callers[c].result.kind = "err"
                                            /\ Len(ld.tried) = Len(strategies)
                                            /\ \A i, j \in 1..Len(ld.tried) :
                                                   ld.tried[i].idx = ld.tried[j].idx => i = j

\* the marker was set, the health check failed, the reload failed as well and
\* the call is rejected
C16_Witness ==
    /\ component = "dep" /\ depVersion = "hardened"
    /\ \E c \in Callers :
           /\ callers[c].evict = "evicted" /\ callers[c].pc = "done"
           /\ callers[c].result.kind = "err"
           /\ depKey \notin loadedDependencies

\* C17: once the asset has been resolved successfully, a later loadAsset call
\* for it is served from the record, without a network request, however much
\* time has passed and whatever the cleanup timer has done.
C17_ResolvedAssetServedFromRecord ==
    component = "amc" /\ amcLoad.resolvedBefore
        => amcLoad.served = "record" /\ ~amcLoad.network

\* C18: a size check fails a remote candidate whose reported size S > 0 differs
\* from the expected size E by more than 10% of E and accepts it otherwise; a
\* local candidate with such a mismatch is accepted with a warning.
C18_RemoteMismatchFails ==
    component = "size" /\ sizeCheck.by # "none" /\ sizeInput.responseOk
    /\ sizeInput.expectedSize # 0 /\ sizeInput.contentLength > 0
        => LET mismatch == Abs(sizeInput.contentLength - sizeInput.expectedSize) * 10
                               > sizeInput.expectedSize
               remote == sizeInput.url = "https://example-cdn.com/models/"
           IN  /\ remote => (sizeCheck.verdict = "throw" <=> mismatch)
               /\ ~remote => sizeCheck.verdict = "accept" /\ (sizeCheck.warned <=> mismatch)

\* C19: an update is handed to the observer whenever the minimum interval has
\* elapsed or its percentage differs from the last one delivered; an update
\* that was suppressed therefore carries the percentage delivered last.
C19_SuppressedOnlyWhenNothingChanged ==
    component = "ual" /\ progress.callback /\ progress.lastCall # NoCall
    /\ ~progress.lastCall.delivered
        => NewStep(TotalProgress(progress.lastCall.local, progress.lastCall.stage))
               = progress.currentStep

C21_LocalWithoutProbe ==
    component = "cand" /\ candReport.by # "none"
    /\ candUrl[1] = "." /\ candUrl[2] = "/"
        => candReport.available /\ ~candReport.network

\* the bundled model path has gone through loadAsset
C21_Witness ==
    /\ component = "cand" /\ candUrl = <<".", "/", "models/">>
    /\ candReport.by = "loadAsset" /\ candReport.available

\* C22: after cleanup() has run while a load was in flight, that load is
\* aborted: it does not complete later and it delivers no more progress.
C22_CleanupAbortsInFlightLoads ==
    component = "ual" /\ ualCleanedDuring # "none"
        => /\ ualCleanedDuring \in {"onnx_cdn", "onnx_local"}
                  => ualPc \in {"onnx_cdn", "onnx_local", "onnx_failed"}
           /\ ualCleanedDuring \in {"model_sw", "model_cdn"}
                  => ualPc \in {"model_sw", "model_cdn", "model_failed"}

\* C23: the canvas cache never holds more than maxCacheSize (5) entries; a
\* request for a new key while the cache is at capacity evicts exactly the
\* earliest-inserted entry and then inserts the new key; below capacity, and
\* on a hit, nothing is evicted.
C23_CanvasCacheBoundedFifo ==
    component = "canvas"
        => /\ Len(canvasCache) <= 5
           /\ canvasCall.created /\ Len(canvasCall.before) >= 5
                 => /\ canvasCall.evicted = canvasCall.before[1]
                    /\ canvasCache = Append(Tail(canvasCall.before), canvasCall.key)
           /\ canvasCall.created /\ Len(canvasCall.before) < 5
                 => canvasCache = Append(canvasCall.before, canvasCall.key)
           /\ canvasCall.key # <<>> /\ ~canvasCall.created
                 => canvasCache = canvasCall.before

\* a sixth resolution has been requested from a full cache
C23_Witness ==
    /\ component = "canvas" /\ canvasCall.created
    /\ Len(canvasCall.before) = 5 /\ canvasCall.evicted # <<>>
    /\ Len(canvasCache) = 5

\* C24: the models cache holds an entry only for a response that was obtained
\* completely and with an OK status; a fetch that fails, breaks off or returns
\* another status neither creates nor replaces an entry.
C24_OnlyCompleteOkResponsesCached ==
    component = "sw"
        => \A v \in Generations :
               \A e \in cacheStorage[[kind |-> "models", version |-> v]].entries :
                   e.status = "ok"

\* a model request was answered with a non-OK response and left the cache empty
C24_Witness ==
    /\ component = "sw" /\ swResponse.url \in MODEL_FILES
    /\ swResponse.from = "network" /\ swResponse.network
    /\ cacheStorage[[kind |-> "models", version |-> CACHE_VERSION]].entries = {}
    /\ modelsStoredBy[swResponse.url] # {}

\* C25: when the models cache of the current generation holds the URL,
\* handleModelRequest answers from the cache without a request to the network,
\* however long ago the entry was stored; an entry stops being found only
\* through an explicit clear or a change of generation.
C25_HitWithoutNetworkUntilCleared ==
    [][component = "sw" =>
         \A url \in MODEL_FILES :
            LET held == \E e \in cacheStorage[[kind |-> "models", version |-> CACHE_VERSION]].entries :
                            e.url = url
                heldAfter == \E e \in cacheStorage'[[kind |-> "models", version |-> CACHE_VERSION']].entries :
                                 e.url = url
            IN  held =>
                  /\ (\E o \in NetworkOutcomes : handleModelRequest(url, o))
                         => /\ swResponse'.from = "cache" /\ ~swResponse'.network
                            /\ heldAfter
                  /\ ~heldAfter
                         => \/ CACHE_VERSION' # CACHE_VERSION
                            \/ swCleared = "no" /\ swCleared' = "yes"]_vars

\* a stored model has been served from the cache
C25_Witness ==
    /\ component = "sw" /\ swResponse.url \in MODEL_FILES
    /\ swResponse.from = "cache" /\ ~swResponse.network
    /\ swBackground.stage = "done"
    /\ swStatus.modelsCount = 1

\* C26: once CLEAR_MODEL_CACHE has been answered and until a new store begins,
\* the models cache of the current generation has no entry, so every lookup
\* misses, and GET_CACHE_STATUS reports modelsCount = 0; a store that was in
\* flight when the cache was cleared does not bring an entry back.
C26_ClearedStaysEmpty ==
    component = "sw" /\ swCleared # "no"
        => /\ cacheStorage[[kind |-> "models", version |-> CACHE_VERSION]].entries = {}
           /\ swCleared = "reported" => swStatus.modelsCount = 0

\* the background store that was in flight at the clear has finished its put,
\* and the status was reported afterwards
C26_Witness ==
    /\ component = "sw" /\ swCleared = "reported"
    /\ swBackground.stage = "done" /\ swBackground.detached
    /\ swBackground.entries # {}

C28_BytesOnlyWhenComplete ==
    component = "dl"
        => /\ dlAttempt.returned => dlAttempt.stage = "resolved" /\ dlBody = <<>>
           /\ dlAttempt.stage = "rejected"
                 => ~dlAttempt.returned /\ dlAttempt.result = <<>>

\* a transfer broke after a chunk had arrived
C28_Witness ==
    /\ component = "dl" /\ dlAttempt.stage = "rejected"
    /\ dlAttempt.error \in {"timeout", "network"}
    /\ Len(dlAttempt.chunks) >= 1 /\ dlBody # <<>>

\* C29: on success the returned buffer is the chunks one after the other in
\* the order they arrived, that is the body as it was sent, and its length is
\* the sum of the lengths of the chunks, however many progress reports were
\* made.
C29_BufferIsConcatenation ==
    component = "dl" /\ dlAttempt.stage = "resolved"
        => /\ dlAttempt.result = dlSent
           /\ Len(dlAttempt.result) = dlAttempt.receivedLength

\* three bytes arrived in two chunks, and one report was held back
C29_Witness ==
    /\ component = "dl" /\ dlAttempt.stage = "resolved"
    /\ Len(dlAttempt.chunks) = 2 /\ Len(dlAttempt.result) = 3
    /\ dlAttempt.result[1] # dlAttempt.result[3]
    /\ dlAttempt.reports = 1

\* C30: when loadModel returns a model it downloaded from the remote
\* candidate, the model is in the models cache by then, and a load of the same
\* model after such a download is answered from the cache.
C30_DownloadStoredBeforeReturn ==
    component = "orch"
        => /\ orchLoad.source = "cdn" => orchCache # {}
           /\ orchLoad.afterDownload => orchLoad.hit

\* C31: the global progress is the weight of the finished phase plus
\* localProgress * weight / 100 of the current one, weights 20 and 80: for
\* stage 'onnx' and p in 0..100 it is p * 20 / 100, for stage 'model' it is
\* 20 + p * 80 / 100, and what is delivered never exceeds 100.
C31_WeightedProgress ==
    component = "prog" /\ progOutput.called
        => LET p == progInput.localProgress IN
           /\ progInput.stage = "onnx" /\ p <= 100 => progOutput.step100 = p * 20
           /\ progInput.stage = "model" /\ p <= 100 => progOutput.step100 = 2000 + p * 80
           /\ progOutput.step100 <= 100 * 100

\* half of the model download: 20 + 50 * 80 / 100 = 60
C31_Witness ==
    /\ component = "prog" /\ progOutput.called
    /\ progInput = [localProgress |-> 50, stage |-> "model"]
    /\ progOutput.step100 = 6000

\* C32: when the load of the substituted smallest variant fails as well,
\* currentModelIndex is set back to what it was before the substitution: after
\* a rejected loadCurrentModel (or switchToNextModel) the selected variant is
\* the one the call started with.
C32_IndexRestoredAfterFailedFallback ==
    component = "mm" /\ mmPc = "done" /\ mmResult.kind = "err"
    /\ mmCall.via \in {"loadCurrentModel", "switchToNextModel"}
        => currentModelIndex = mmCall.startIndex

\* a call that began with another variant tried the smallest one and was
\* rejected
C32_Witness ==
    /\ component = "mm" /\ mmPc = "done" /\ mmResult.kind = "err"
    /\ mmCall.via = "switchToNextModel" /\ mmCall.substituted # <<>>
    /\ mmCall.depth = 2
    /\ currentModelIndex # findSmallestAvailableModel

\* C33: once the boundary has counted MAX_CONSECUTIVE_ERRORS (5) consecutive
\* errors it is in failsafe mode: a later call of a wrapped function does not
\* run the function until reset() is called, and no recovery is started for
\* the error that brought failsafe mode about.
C33_FailsafeStopsOperations ==
    component = "eb"
        => /\ ebLast.failsafeBefore => ~ebLast.executed
           /\ ebLast.failsafe => ~ebLast.recovery

\* C38: a boundary runs at most one recovery at a time: while attemptRecovery
\* is under way, neither further errors nor reset() lead to a second call of
\* the recovery callback beside the first.
C38_OneRecoveryAtATime ==
    component = "eb" => ebRecoveries.callback <= 1

\* C34: every request to the cache coordinator settles: a call of cacheModel,
\* clearModelCache or updateCacheStats that waits for the reply of the worker
\* stops waiting after finitely many steps, also without a controller and when
\* the operation of the worker throws.
C34_EveryRequestSettles ==
    \A c \in CallSlots :
        (component = "swm" /\ swmCalls[c].st = "pending")
            ~> (swmCalls[c].st # "pending")

\* C37: a call of cacheModel(url) whose promise has resolved (it returns true)
\* finds an entry for url in the models cache, unless the cache was cleared
\* while the call was under way.
C37_TrueOnlyWhenCached ==
    component = "swm"
        => \A c \in CallSlots :
              (swmCalls[c].op = "cacheModel" /\ swmCalls[c].st = "resolved"
                   /\ ~swmCalls[c].cleared)
                  => CacheMatch(cacheStorage, MODELS_CACHE(CACHE_VERSION),
                                swmCalls[c].url) # {}

\* C35: single-flight across the re-validation of a stale marker: the calls of
\* the hardened loadOnnxRuntime() that overlap with the health check of a
\* marker that fails it start one internal load between them, so no two
\* internal loads are ever in flight together.
C35_OneLoadAcrossRevalidation ==
    component = "dep" /\ depVersion = "hardened"
        => Cardinality(PendingLoads) <= 1

\* C36: what getStatus() reports: the key is never both in loadedDependencies
\* and in activeLoads (the keys of loadingPromises).
C36_LoadedAndActiveDisjoint ==
    component = "dep"
        => ~(depKey \in loadedDependencies /\ LoadingHas(loadingPromises))

\* C39: at most one live-detection loop is active at any time: while live
\* detection is on, no two chains of runLiveDetectionLoop are under way, and no
\* two frame callbacks are ever scheduled together.
C39_OneLiveLoop ==
    component = "app"
        => /\ isLiveDetection => Cardinality(ActiveLoops) <= 1
           /\ Cardinality(ScheduledLoops) <= 1

\* C40: after initialize() has settled, with the application initialized or
\* with a loading failure caught, isLoading is false.
C40_NotLoadingAfterInitialize ==
    component = "app" /\ appPc \in {"ready", "failed"} => ~isLoading
====
